---- MODULE Spec2Model ----
(***************************************************************************)
(* VinylVault: the byte-bounded LRU image cache (src/image_cache.py) and   *)
(* the weighted random-selection engine (src/random_algorithm.py).         *)
(*                                                                         *)
(* Sizes are in units of 100 bytes.  Weights are fixed-point numbers in    *)
(* thousandths (1000 stands for 1.0).  Time is in whole hours.             *)
(***************************************************************************)
EXTENDS Integers, Sequences, FiniteSets, TLC

(***************************************************************************)
(* Bounds of the model                                                     *)
(***************************************************************************)
\* total byte budget of the LRU cache (LRUCache.__init__ parameter)
max_size_bytes == 10
\* how many LRUCache.get calls a behaviour may make
MaxRequests == 1
\* how many evictions a behaviour may make
MaxEvictions == 3
\* how many albums the collection sync inserts
MaxAlbums == 2
\* how many select_random_album calls a behaviour may make
MaxSelections == 2
\* how many hours pass
MaxNow == 1
\* how many record_user_feedback calls a behaviour may make
MaxFeedbacks == 1
\* how many get_image calls a behaviour may make
MaxImageCalls == 3
\* how many cleanup_cache calls a behaviour may make
MaxCleanups == 1
\* how many days pass
MaxDays == 1
\* how many URLs a preload_images call is given
MaxUrls == 2
\* how many times the album page is opened
MaxPlays == 1
\* how many get_placeholder_path calls a behaviour may make
MaxPlaceholderCalls == 3
\* how many times the engine, and the image cache, is constructed again on
\* the store it left
MaxRestarts == 2
\* how many weeks pass
MaxWeeks == 1
\* how many albums a synchronised collection holds
MaxSynced == 3
\* how many get_algorithm_instance calls a behaviour may make
MaxInstanceCalls == 3
\* how many of them a behaviour checked for progress may make
MaxLiveInstanceCalls == 2
\* RANDOM() of SQLite is an integer of 64 bits, from -2^63 to 2^63 - 1; in the
\* model it is an integer from -MaxRandom to MaxRandom
MaxRandom == 2

Threads == {"t1", "t2"}
NoThread == "none"
Keys == {"k1", "k2", "k3", "k4"}
\* entry sizes offered to put: two that fit and one larger than the budget
Sizes == {3, 4, max_size_bytes + 1}

VARIABLES
    \* ---- LRUCache (src/image_cache.py:147-281)
    cache_data,          \* key -> CacheEntry
    cache_order,         \* OrderedDict keys, least recently used first
    current_size_bytes,
    stats,               \* hits, misses, evictions, total_requests
    lock,                \* holder of LRUCache.lock
    files,               \* keys whose backing file exists on disk
    lpc,                 \* thread -> position inside an LRUCache call
    larg,                \* thread -> [key, entry] of the put in progress
    \* ---- observation of the LRUCache calls
    pre,                 \* the cache as it was when the put in progress began
    evicted,             \* keys evicted by the put in progress / last put
    lret,                \* last completed call: [op, key, size, val]
    mru,                 \* stored keys by last get-hit or put, oldest first
    \* ---- the wall clock read by datetime.now(), in hours
    now

lruVars == <<cache_data, cache_order, current_size_bytes, stats, lock, files,
             lpc, larg, pre, evicted, lret, mru>>

(***************************************************************************)
(* Helpers on sequences and finite maps                                    *)
(***************************************************************************)
SeqRemove(s, x) == SelectSeq(s, LAMBDA y : y # x)

SeqToSet(s) == {s[i] : i \in 1..Len(s)}

MapRemove(d, k) == [x \in (DOMAIN d) \ {k} |-> d[x]]

MapPut(d, k, v) == [x \in (DOMAIN d) \cup {k} |-> IF x = k THEN v ELSE d[x]]

EmptyMap == [x \in {} |-> 0]

RECURSIVE SumFileSize(_, _)
SumFileSize(d, ks) ==
    IF ks = {} THEN 0
    ELSE LET k == CHOOSE x \in ks : TRUE
         IN d[k].file_size + SumFileSize(d, ks \ {k})

\* sum(entry.file_size for entry in cache_data.values())
StoredBytes == SumFileSize(cache_data, DOMAIN cache_data)

(***************************************************************************)
(* LRUCache                                                                *)
(***************************************************************************)
NewEntry(size) == [file_size |-> size, last_accessed |-> now, access_count |-> 1]

ZeroStats == [hits |-> 0, misses |-> 0, evictions |-> 0, total_requests |-> 0]

\* what a put finds when it is called: the cache, the files on disk (the new
\* entry's file among them) and its own arguments
Snapshot(key, entry) ==
    [data |-> cache_data, order |-> cache_order, size |-> current_size_bytes,
     evictions |-> stats.evictions, files |-> files \cup {key}, mru |-> mru,
     key |-> key, file_size |-> entry.file_size]

NoCall == [op |-> "none", key |-> "none", size |-> 0, val |-> FALSE]

NoPre == [data |-> EmptyMap, order |-> <<>>, size |-> 0, evictions |-> 0,
          files |-> {}, mru |-> <<>>, key |-> "none", file_size |-> 0]

NoArg == [key |-> "none", entry |-> [file_size |-> 0, last_accessed |-> 0,
                                     access_count |-> 0]]

LRUInit ==
    /\ cache_data = EmptyMap
    /\ cache_order = <<>>
    /\ current_size_bytes = 0
    /\ stats = ZeroStats
    /\ lock = NoThread
    /\ files = {}
    /\ lpc = [t \in Threads |-> "idle"]
    /\ larg = [t \in Threads |-> NoArg]
    /\ pre = NoPre
    /\ evicted = <<>>
    /\ lret = NoCall
    /\ mru = <<>>

\* the caller's turn: `with self.lock` is free and the thread is in no call
CanEnter(t) == lock = NoThread /\ lpc[t] = "idle"

\* a get that answers a hit without cache_order.move_to_end(key)
get_without_move_to_end(t, key) ==
    /\ CanEnter(t)
    /\ stats.total_requests < MaxRequests
    /\ IF key \in DOMAIN cache_data
       THEN /\ cache_data' = [cache_data EXCEPT
                                ![key].last_accessed = now,
                                ![key].access_count = @ + 1]
            /\ stats' = [stats EXCEPT !.total_requests = @ + 1, !.hits = @ + 1]
            /\ lret' = [op |-> "get", key |-> key, size |-> 0, val |-> TRUE]
            /\ mru' = Append(SeqRemove(mru, key), key)
            /\ UNCHANGED cache_order
       ELSE /\ stats' = [stats EXCEPT !.total_requests = @ + 1, !.misses = @ + 1]
            /\ lret' = [op |-> "get", key |-> key, size |-> 0, val |-> FALSE]
            /\ UNCHANGED <<cache_data, cache_order, mru>>
    /\ pre' = NoPre
    /\ evicted' = <<>>
    /\ UNCHANGED <<current_size_bytes, lock, files, lpc, larg>>

\* a get that counts the request and the hits but not the misses
get_not_counting_misses(t, key) ==
    /\ CanEnter(t)
    /\ stats.total_requests < MaxRequests
    /\ IF key \in DOMAIN cache_data
       THEN /\ cache_data' = [cache_data EXCEPT
                                ![key].last_accessed = now,
                                ![key].access_count = @ + 1]
            /\ cache_order' = Append(SeqRemove(cache_order, key), key)
            /\ stats' = [stats EXCEPT !.total_requests = @ + 1, !.hits = @ + 1]
            /\ lret' = [op |-> "get", key |-> key, size |-> 0, val |-> TRUE]
            /\ mru' = Append(SeqRemove(mru, key), key)
       ELSE /\ stats' = [stats EXCEPT !.total_requests = @ + 1]
            /\ lret' = [op |-> "get", key |-> key, size |-> 0, val |-> FALSE]
            /\ UNCHANGED <<cache_data, cache_order, mru>>
    /\ pre' = NoPre
    /\ evicted' = <<>>
    /\ UNCHANGED <<current_size_bytes, lock, files, lpc, larg>>

\* LRUCache.get: the whole body runs under the lock
get(t, key) ==
    /\ CanEnter(t)
    /\ stats.total_requests < MaxRequests
    /\ IF key \in DOMAIN cache_data
       THEN /\ cache_data' = [cache_data EXCEPT
                                ![key].last_accessed = now,
                                ![key].access_count = @ + 1]
            /\ cache_order' = Append(SeqRemove(cache_order, key), key)
            /\ stats' = [stats EXCEPT !.total_requests = @ + 1, !.hits = @ + 1]
            /\ lret' = [op |-> "get", key |-> key, size |-> 0, val |-> TRUE]
            /\ mru' = Append(SeqRemove(mru, key), key)
       ELSE /\ stats' = [stats EXCEPT !.total_requests = @ + 1, !.misses = @ + 1]
            /\ lret' = [op |-> "get", key |-> key, size |-> 0, val |-> FALSE]
            /\ UNCHANGED <<cache_data, cache_order, mru>>
    /\ pre' = NoPre
    /\ evicted' = <<>>
    /\ UNCHANGED <<current_size_bytes, lock, files, lpc, larg>>

\* a put that drops the entry stored under the key but keeps its bytes in
\* current_size_bytes
put_begin_keeping_old_bytes(t, key, entry) ==
    /\ CanEnter(t)
    /\ stats.evictions + Len(cache_order) <= MaxEvictions
    /\ lock' = t
    /\ lpc' = [lpc EXCEPT ![t] = "put_evict"]
    /\ larg' = [larg EXCEPT ![t] = [key |-> key, entry |-> entry]]
    /\ files' = files \cup {key}
    /\ pre' = Snapshot(key, entry)
    /\ evicted' = <<>>
    /\ IF key \in DOMAIN cache_data
       THEN /\ cache_data' = MapRemove(cache_data, key)
            /\ cache_order' = SeqRemove(cache_order, key)
            /\ UNCHANGED current_size_bytes
       ELSE UNCHANGED <<cache_data, cache_order, current_size_bytes>>
    /\ lret' = NoCall
    /\ UNCHANGED <<stats, mru>>

\* LRUCache.put, first part: take the lock and drop an entry already stored
\* under the key.  The caller has written the backing file of the new entry.
put_begin(t, key, entry) ==
    /\ CanEnter(t)
    /\ stats.evictions + Len(cache_order) <= MaxEvictions
    /\ lock' = t
    /\ lpc' = [lpc EXCEPT ![t] = "put_evict"]
    /\ larg' = [larg EXCEPT ![t] = [key |-> key, entry |-> entry]]
    /\ files' = files \cup {key}
    /\ pre' = Snapshot(key, entry)
    /\ evicted' = <<>>
    /\ IF key \in DOMAIN cache_data
       THEN /\ current_size_bytes' = current_size_bytes - cache_data[key].file_size
            /\ cache_data' = MapRemove(cache_data, key)
            /\ cache_order' = SeqRemove(cache_order, key)
       ELSE UNCHANGED <<cache_data, cache_order, current_size_bytes>>
    /\ lret' = NoCall
    /\ UNCHANGED <<stats, mru>>

\* an eviction loop that looks at the bytes stored and not at the new entry
MustEvictIgnoringEntry(entry) ==
    /\ current_size_bytes > max_size_bytes
    /\ cache_order # <<>>

\* the condition of the eviction loop of put
MustEvict(entry) ==
    /\ current_size_bytes + entry.file_size > max_size_bytes
    /\ cache_order # <<>>

\* LRUCache._evict_lru, one iteration of the loop of put
_evict_lru(t) ==
    /\ lpc[t] = "put_evict"
    /\ MustEvict(larg[t].entry)
    /\ LET lru_key == Head(cache_order)
           lru_entry == cache_data[lru_key]
       IN /\ cache_data' = MapRemove(cache_data, lru_key)
          /\ cache_order' = Tail(cache_order)
          /\ current_size_bytes' = current_size_bytes - lru_entry.file_size
          /\ stats' = [stats EXCEPT !.evictions = @ + 1]
          /\ files' = files \ {lru_key}
          /\ evicted' = Append(evicted, lru_key)
    /\ UNCHANGED <<lock, lpc, larg, pre, lret, mru>>

\* a put without the check of lines 199-201: it stores whatever it is given
put_finish_without_size_check(t) ==
    /\ lpc[t] = "put_evict"
    /\ ~MustEvict(larg[t].entry)
    /\ LET key == larg[t].key
           entry == larg[t].entry
       IN /\ cache_data' = MapPut(cache_data, key, entry)
          /\ cache_order' = Append(cache_order, key)
          /\ current_size_bytes' = current_size_bytes + entry.file_size
          /\ lret' = [op |-> "put", key |-> key, size |-> entry.file_size,
                      val |-> TRUE]
          /\ mru' = Append(SelectSeq(mru, LAMBDA k :
                              k \in DOMAIN cache_data /\ k # key), key)
    /\ lock' = NoThread
    /\ lpc' = [lpc EXCEPT ![t] = "idle"]
    /\ larg' = [larg EXCEPT ![t] = NoArg]
    /\ UNCHANGED <<stats, files, pre, evicted>>

\* LRUCache.put, last part: reject an oversized entry or store the entry
put_finish(t) ==
    /\ lpc[t] = "put_evict"
    /\ ~MustEvict(larg[t].entry)
    /\ LET key == larg[t].key
           entry == larg[t].entry
       IN IF entry.file_size > max_size_bytes
          THEN /\ lret' = [op |-> "put", key |-> key, size |-> entry.file_size,
                           val |-> FALSE]
               /\ mru' = SelectSeq(mru, LAMBDA k : k \in DOMAIN cache_data)
               /\ UNCHANGED <<cache_data, cache_order, current_size_bytes>>
          ELSE /\ cache_data' = MapPut(cache_data, key, entry)
               /\ cache_order' = Append(cache_order, key)
               /\ current_size_bytes' = current_size_bytes + entry.file_size
               /\ lret' = [op |-> "put", key |-> key, size |-> entry.file_size,
                           val |-> TRUE]
               /\ mru' = Append(SelectSeq(mru, LAMBDA k :
                                   k \in DOMAIN cache_data /\ k # key), key)
    /\ lock' = NoThread
    /\ lpc' = [lpc EXCEPT ![t] = "idle"]
    /\ larg' = [larg EXCEPT ![t] = NoArg]
    /\ UNCHANGED <<stats, files, pre, evicted>>

\* LRUCache.remove
remove(t, key) ==
    /\ CanEnter(t)
    /\ IF key \in DOMAIN cache_data
       THEN /\ current_size_bytes' = current_size_bytes - cache_data[key].file_size
            /\ cache_data' = MapRemove(cache_data, key)
            /\ cache_order' = SeqRemove(cache_order, key)
            /\ files' = files \ {key}
            /\ mru' = SeqRemove(mru, key)
            /\ lret' = [op |-> "remove", key |-> key, size |-> 0, val |-> TRUE]
       ELSE /\ lret' = [op |-> "remove", key |-> key, size |-> 0, val |-> FALSE]
            /\ UNCHANGED <<cache_data, cache_order, current_size_bytes, files, mru>>
    /\ pre' = NoPre
    /\ evicted' = <<>>
    /\ UNCHANGED <<stats, lock, lpc, larg>>

\* a clear that leaves the counters as they are
clear_keeping_counters(t) ==
    /\ CanEnter(t)
    /\ files' = files \ DOMAIN cache_data
    /\ cache_data' = EmptyMap
    /\ cache_order' = <<>>
    /\ current_size_bytes' = 0
    /\ mru' = <<>>
    /\ lret' = [op |-> "clear", key |-> "none", size |-> 0, val |-> TRUE]
    /\ pre' = [NoPre EXCEPT !.size = current_size_bytes,
                            !.evictions = stats.evictions]
    /\ evicted' = <<>>
    /\ UNCHANGED <<stats, lock, lpc, larg>>

\* LRUCache.clear; pre keeps the bytes and the evictions it found
clear(t) ==
    /\ CanEnter(t)
    /\ files' = files \ DOMAIN cache_data
    /\ cache_data' = EmptyMap
    /\ cache_order' = <<>>
    /\ current_size_bytes' = 0
    /\ stats' = ZeroStats
    /\ mru' = <<>>
    /\ lret' = [op |-> "clear", key |-> "none", size |-> 0, val |-> TRUE]
    /\ pre' = [NoPre EXCEPT !.size = current_size_bytes,
                            !.evictions = stats.evictions]
    /\ evicted' = <<>>
    /\ UNCHANGED <<lock, lpc, larg>>

(***************************************************************************)
(* AlgorithmConfig (src/random_algorithm.py:40-67); weights in thousandths *)
(***************************************************************************)
rating_weight == 2000
play_count_weight == 1500
recency_weight == 800
genre_diversity_weight == 1200
genre_cooldown_selections == 3
max_same_artist_streak == 2
seasonal_adjustment == TRUE
time_based_preferences == TRUE
\* the configuration the engine of the model is built with (defaults 24, 50)
min_time_between_repeats_hours == 1
max_history_size == 2
\* deque(maxlen=10) and deque(maxlen=5) of SelectionHistory
GenreHistoryLen == 10
ArtistHistoryLen == 5

(***************************************************************************)
(* Fixed-point arithmetic in thousandths                                   *)
(***************************************************************************)
Mul(a, b) == (a * b) \div 1000

Max(a, b) == IF a >= b THEN a ELSE b

\* math.log(x / 1000) in thousandths, for x >= 1000: halve down to [1, 2),
\* then ln m = 2 (y + y^3/3 + y^5/5) with y = (m - 1) / (m + 1)
RECURSIVE Ln(_)
Ln(x) ==
    IF x >= 2000 THEN 693 + Ln(x \div 2)
    ELSE LET y == ((x - 1000) * 1000) \div (x + 1000)
             y3 == (y * y * y) \div 1000000
         IN 2 * (y + y3 \div 3 + (y3 * y * y) \div 5000000)

\* math.exp(-days / 365.0) in thousandths: e^-1 per whole year, then the
\* Taylor series of e^-f (six terms) for the rest of the year
RECURSIVE ExpDecay(_)
ExpDecay(days) ==
    IF days >= 365 THEN Mul(368, ExpDecay(days - 365))
    ELSE LET f == (days * 1000) \div 365
             f2 == (f * f) \div 1000
             f4 == (f2 * f2) \div 1000
         IN 1000 - f + f2 \div 2 - (f2 * f) \div 6000 + f4 \div 24
                 - (f4 * f) \div 120000 + (f4 * f2) \div 720000

(***************************************************************************)
(* WeightCalculator (src/random_algorithm.py:118-241)                      *)
(***************************************************************************)
\* rating 0 stands for an unrated album (None)
calculate_rating_weight(rating) ==
    IF rating <= 0 THEN 500
    ELSE (rating * rating * rating_weight) \div 25 + 100

\* avg_play_count is the fraction total / count
calculate_play_count_weight(play_count, total, count) ==
    IF total <= 0 THEN 1000
    ELSE Mul(Ln(((play_count * count + total) * 1000) \div total), play_count_weight) + 100

\* days_played < 0 stands for an album never played (last_played is None)
calculate_recency_weight(days_added, days_played) ==
    LET recency_factor == ExpDecay(days_added)
        play_recency_factor == IF days_played >= 0
                               THEN Ln((days_played + 1) * 1000) \div 10
                               ELSE 2000
    IN Mul(recency_factor + play_recency_factor, recency_weight)

Count(seq, x) == Cardinality({i \in 1..Len(seq) : seq[i] = x})

calculate_genre_diversity_weight(genres, recent_genres) ==
    IF genres = <<>> THEN 1000
    ELSE LET recent_count == Count(recent_genres, genres[1])
         IN IF recent_count = 0 THEN 1000 + genre_diversity_weight
            ELSE Max(100, 1000 \div (recent_count * recent_count))

\* the empty string stands for an album without artist
calculate_artist_diversity_weight(artist, recent_artists) ==
    IF artist = "" THEN 1000
    ELSE LET recent_count == Count(recent_artists, artist)
         IN IF recent_count = 0 THEN 1000
            ELSE Max(50, 1000 \div (recent_count * recent_count * recent_count))

\* the boost keys that are substrings of genre.lower()
GenreKeys(genre) ==
    CASE genre = "Rock" -> {"rock"}
      [] genre = "Jazz" -> {"jazz"}
      [] genre = "Folk Rock" -> {"folk", "rock"}
      [] OTHER -> {}

seasonal_boosts ==
    [christmas |-> {12, 1}, holiday |-> {12, 1}, jazz |-> {10, 11, 12},
     classical |-> {10, 11, 12, 1, 2}, electronic |-> {6, 7, 8},
     reggae |-> {6, 7, 8}, folk |-> {9, 10, 11}, acoustic |-> {9, 10, 11}]

\* a seasonal boost of 5 in the place of 1.3
apply_seasonal_adjustment_fivefold(genres, weight, current_month) ==
    IF ~seasonal_adjustment \/ genres = <<>> THEN weight
    ELSE IF \E genre_key \in DOMAIN seasonal_boosts :
                /\ genre_key \in GenreKeys(genres[1])
                /\ current_month \in seasonal_boosts[genre_key]
         THEN weight * 5
         ELSE weight

apply_seasonal_adjustment(genres, weight, current_month) ==
    IF ~seasonal_adjustment \/ genres = <<>> THEN weight
    ELSE IF \E genre_key \in DOMAIN seasonal_boosts :
                /\ genre_key \in GenreKeys(genres[1])
                /\ current_month \in seasonal_boosts[genre_key]
         THEN (weight * 13) \div 10
         ELSE weight

apply_time_based_adjustment(genres, weight, current_hour) ==
    IF ~time_based_preferences \/ genres = <<>> THEN weight
    ELSE LET keys == GenreKeys(genres[1])
         IN IF 6 <= current_hour /\ current_hour <= 10
            THEN IF keys \cap {"classical", "acoustic", "folk", "jazz"} # {}
                 THEN (weight * 12) \div 10 ELSE weight
            ELSE IF 18 <= current_hour /\ current_hour <= 22
            THEN IF keys \cap {"electronic", "rock", "pop"} # {}
                 THEN (weight * 12) \div 10 ELSE weight
            ELSE IF 22 <= current_hour \/ current_hour <= 6
            THEN IF keys \cap {"ambient", "classical", "jazz"} # {}
                 THEN (weight * 13) \div 10 ELSE weight
            ELSE weight

\* a refresh that stores the combined weight as it comes
MinimumWeightMissing(final_weight) == final_weight

\* final_weight = max(0.01, final_weight)
MinimumWeight(final_weight) == Max(10, final_weight)

(***************************************************************************)
(* The collection and the store of the selection engine                    *)
(***************************************************************************)
NoValue == -1
\* user_feedback IS NULL
NoFeedback == -2

\* the rows the collection sync inserts into albums, by id
AlbumRow(id) ==
    CASE id = 1 -> [artist |-> "X", genres |-> <<"Rock">>, rating |-> 5,
                    play_count |-> 2, days_added |-> 10, days_played |-> NoValue]
      [] id = 2 -> [artist |-> "Y", genres |-> <<"Jazz">>, rating |-> 1,
                    play_count |-> 0, days_added |-> 3650, days_played |-> 0]
      [] OTHER  -> [artist |-> "X", genres |-> <<"Folk Rock">>, rating |-> 0,
                    play_count |-> 1, days_added |-> 400, days_played |-> 30]

Sessions == {"s1"}
\* the engine runs in November (seasonal boost for jazz and folk) from five
\* o'clock on: the night band of the time-of-day boost, then the morning band
Months == {11}
StartHours == {5}

VARIABLES
    \* ---- the store (SQLite)
    albums,              \* albums table: id -> row
    intelligent_cache,   \* committed rows of the weight table, in rowid order
    txn,                 \* the open write transaction of a refresh
    selection_history,   \* durable selection log
    \* ---- RandomAlgorithm (src/random_algorithm.py:244-722)
    history,             \* SelectionHistory: selections, genre and artist windows
    last_cache_refresh,
    cache_lock,          \* holder of RandomAlgorithm.cache_lock
    metrics,             \* SelectionMetrics.total_selections
    spc,                 \* thread -> position inside a call of the engine
    sarg,                \* thread -> the call's arguments and locals
    sret,                \* what the latest select_random_album returned
    committed,           \* album ids of the rows the latest commit wrote
    refreshed_at,        \* when the latest refresh committed (NoValue: none did)
    \* ---- the calendar behind datetime.now()
    month,
    start_hour

selVars == <<albums, intelligent_cache, txn, selection_history, history,
             last_cache_refresh, cache_lock, metrics, spc, sarg, sret,
             committed, refreshed_at, month, start_hour>>

VARIABLES
    \* ---- the callers of the engine (src/app.py)
    fret                 \* the latest record_user_feedback call

fbVars == <<fret>>

VARIABLES
    \* ---- construction (src/random_algorithm.py 40-67, 247-259)
    config,              \* the AlgorithmConfig constructed last
    engine_config,       \* self.config of the RandomAlgorithm built last
    rated                \* a WeightCalculator: its config.rating_weight and
                         \* what calculate_rating_weight has returned

cfgVars == <<config, engine_config, rated>>

VARIABLES
    \* ---- ImageCache (src/image_cache.py:283-739)
    image_cache,         \* the metadata table: cache_key -> saved entry
    ipc,                 \* thread -> position inside a get_image call
    iarg,                \* thread -> [key, entry, put_ok] of the call
    iret,                \* the latest get_image return
    image_calls,         \* get_image calls made
    cret                 \* the latest cleanup_cache call

imgVars == <<image_cache, ipc, iarg, iret, image_calls, cret>>

VARIABLES
    \* ---- ImageCache.preload_images (src/image_cache.py:593-641)
    futures,             \* the futures submitted, in submission order
    running,             \* worker thread -> index of the future it runs, or 0
    preload              \* the preload_images call: its locals and its return

preVars == <<futures, running, preload>>

VARIABLES
    \* ---- ImageCache.get_placeholder_path (src/image_cache.py:643-692)
    placeholder          \* the placeholder files, the calls and their returns

plcVars == <<placeholder>>

VARIABLES
    \* ---- RandomAlgorithm.__init__ and ImageCache.__init__ on a used store
    started              \* the constructions so far: n and error of the engine
                         \* and its history load, loads of the image cache

startVars == <<started>>

VARIABLES
    \* ---- get_algorithm_instance (src/random_algorithm.py:725-737)
    singleton            \* _algorithm_instance, _algorithm_lock, the calls
                         \* and their returns

sglVars == <<singleton>>

VARIABLES
    \* ---- the calls of select_random_album (src/random_algorithm.py:446-521)
    tally                \* how many were made, how many have returned, and
                         \* the total_selections each thread has read in
                         \* _update_metrics and not yet written back

tallyVars == <<tally>>

vars == <<lruVars, now, selVars, fbVars, cfgVars, imgVars, preVars, plcVars,
          startVars, sglVars, tallyVars>>

\* what the actions of LRUCache and of the engine leave alone
LRUFrame ==
    <<now, selVars, fbVars, cfgVars, imgVars, preVars, plcVars, startVars, sglVars,
      tallyVars>>
SelFrame ==
    <<lruVars, fbVars, cfgVars, imgVars, preVars, plcVars, startVars, sglVars,
      tallyVars>>
FeedbackFrame ==
    <<lruVars, cfgVars, imgVars, preVars, plcVars, startVars, sglVars,
      tallyVars>>
CfgFrame ==
    <<lruVars, now, selVars, fbVars, imgVars, preVars, plcVars, startVars, sglVars,
      tallyVars>>
\* what ImageCache leaves alone: the engine, and a caller of LRUCache of its
\* own (ImageCache calls get, put and remove as wholes, under LRUCache.lock)
ImgFrame ==
    <<lock, lpc, larg, pre, evicted, lret, mru, selVars, fbVars, cfgVars, preVars,
      plcVars, startVars, sglVars,
      tallyVars>>
\* what ImageCache leaves alone when the holder of LRUCache.lock is followed
ShareFrame ==
    <<lpc, larg, pre, evicted, lret, mru, selVars, fbVars, cfgVars, preVars,
      plcVars, startVars, sglVars, tallyVars>>
\* the same for get_image calls that run as futures of preload_images
FutureFrame ==
    <<lock, lpc, larg, pre, evicted, lret, mru, selVars, fbVars, cfgVars, plcVars,
      startVars, sglVars,
      tallyVars>>
\* what get_placeholder_path leaves alone
PlaceholderFrame ==
    <<lruVars, now, selVars, fbVars, cfgVars, imgVars, preVars, startVars,
      sglVars, tallyVars>>
\* what the construction of the engine leaves alone
StartFrame ==
    <<lruVars, fbVars, cfgVars, imgVars, preVars, plcVars, sglVars,
      tallyVars>>
\* what the construction of the image cache leaves alone
LoadFrame ==
    <<lock, lpc, larg, pre, evicted, lret, mru, selVars, fbVars, cfgVars, preVars,
      plcVars, sglVars,
      tallyVars>>

\* what get_algorithm_instance leaves alone outside the constructor
InstanceFrame ==
    <<lruVars, now, selVars, fbVars, cfgVars, imgVars, preVars, plcVars,
      startVars, tallyVars>>

\* what a select_random_album that is counted leaves alone
TallyFrame ==
    <<lruVars, fbVars, cfgVars, imgVars, preVars, plcVars, startVars, sglVars>>

NoTxn == [owner |-> NoThread, table |-> <<>>]

NoSelArg == [op |-> "none", session |-> "none", entries |-> <<>>]

NoResult == [kind |-> "none", id |-> 0, album_id |-> 0, from_cache |-> FALSE,
             at |-> 0, error |-> FALSE, logged |-> FALSE]

current_hour == (start_hour + now) % 24

Last(seq, n) == IF Len(seq) <= n THEN seq ELSE SubSeq(seq, Len(seq) - n + 1, Len(seq))

RECURSIVE SortedSeq(_)
SortedSeq(S) ==
    IF S = {} THEN <<>>
    ELSE LET m == CHOOSE x \in S : \A y \in S : x <= y
         IN <<m>> \o SortedSeq(S \ {m})

RECURSIVE SumPlayCount(_)
SumPlayCount(ids) ==
    IF ids = {} THEN 0
    ELSE LET a == CHOOSE x \in ids : TRUE
         IN albums[a].play_count + SumPlayCount(ids \ {a})

(***************************************************************************)
(* SelectionHistory (src/random_algorithm.py:70-115)                       *)
(***************************************************************************)
\* a SelectionHistory whose deques have no maxlen
add_selection_keeping_all(h, album) ==
    [selections |-> Append(h.selections,
                         [album_id |-> album.id, timestamp |-> now,
                          genres |-> album.genres, artist |-> album.artist,
                          rating |-> album.rating,
                          play_count |-> album.play_count]),
     genre_history |-> IF album.genres # <<>>
                       THEN Append(h.genre_history, album.genres[1])
                       ELSE h.genre_history,
     artist_history |-> Append(h.artist_history, album.artist)]

\* album is the dictionary select_random_album built from the row it drew
add_selection(h, album) ==
    [selections |-> Last(Append(h.selections,
                         [album_id |-> album.id, timestamp |-> now,
                          genres |-> album.genres, artist |-> album.artist,
                          rating |-> album.rating,
                          play_count |-> album.play_count]),
                         max_history_size),
     genre_history |-> IF album.genres # <<>>
                       THEN Last(Append(h.genre_history, album.genres[1]),
                                 GenreHistoryLen)
                       ELSE h.genre_history,
     artist_history |-> Last(Append(h.artist_history, album.artist),
                             ArtistHistoryLen)]

get_recent_albums(h, hours) ==
    {h.selections[i].album_id : i \in {j \in 1..Len(h.selections) :
                                        h.selections[j].timestamp > now - hours}}

get_recent_genres(h, count) == Last(h.genre_history, count)

get_recent_artists(h, count) == Last(h.artist_history, count)

\* albums handed to add_selection: with one genre, with two, without any
HistoryAlbums ==
    {[id |-> 1, genres |-> <<"Rock">>, artist |-> "X", rating |-> 5,
      play_count |-> 2],
     [id |-> 2, genres |-> <<"Jazz", "Rock">>, artist |-> "Y", rating |-> 1,
      play_count |-> 0],
     [id |-> 3, genres |-> <<>>, artist |-> "", rating |-> 0, play_count |-> 1]}

\* a caller of SelectionHistory.add_selection
add_selection_call(album) ==
    /\ history' = add_selection(history, album)
    /\ UNCHANGED <<albums, intelligent_cache, txn, selection_history,
                   last_cache_refresh, cache_lock, metrics, spc, sarg, sret,
                   committed, refreshed_at, month, start_hour, now>>

(***************************************************************************)
(* RandomAlgorithm._refresh_selection_cache (src/random_algorithm.py:349)  *)
(***************************************************************************)
\* the weight row computed for one album (lines 389-419)
WeightRow(id) ==
    LET album == albums[id]
        ids == DOMAIN albums
        rating_w == calculate_rating_weight(album.rating)
        play_count_w == calculate_play_count_weight(
                            album.play_count, SumPlayCount(ids), Cardinality(ids))
        recency_w == calculate_recency_weight(album.days_added, album.days_played)
        diversity_w == calculate_genre_diversity_weight(
                            album.genres,
                            get_recent_genres(history, genre_cooldown_selections))
        artist_w == calculate_artist_diversity_weight(
                            album.artist,
                            get_recent_artists(history, max_same_artist_streak))
        base_weight == Mul(Mul(rating_w, play_count_w), recency_w)
        combined == Mul(Mul(base_weight, diversity_w), artist_w)
        seasonal == apply_seasonal_adjustment(album.genres, combined, month)
        timed == apply_time_based_adjustment(album.genres, seasonal, current_hour)
    IN [album_id |-> id, rating_weight |-> rating_w,
        play_count_weight |-> play_count_w, recency_weight |-> recency_w,
        diversity_weight |-> diversity_w,
        final_weight |-> MinimumWeight(timed), last_computed |-> now]

\* cache_entries: one row per album, in id order, skipping the recent ones
CacheEntries ==
    LET recent_albums == get_recent_albums(history, min_time_between_repeats_hours)
        ids == SortedSeq(DOMAIN albums \ recent_albums)
    IN [i \in 1..Len(ids) |-> WeightRow(ids[i])]

\* INSERT INTO intelligent_cache: the rowid is one more than the largest one
InsertRow(table, entry) ==
    Append(table, [id |-> Len(table) + 1, album_id |-> entry.album_id,
                   rating_weight |-> entry.rating_weight,
                   play_count_weight |-> entry.play_count_weight,
                   recency_weight |-> entry.recency_weight,
                   diversity_weight |-> entry.diversity_weight,
                   final_weight |-> entry.final_weight,
                   last_computed |-> entry.last_computed,
                   times_served |-> 0, last_served |-> NoValue])

AlbumIds(table) == [i \in 1..Len(table) |-> table[i].album_id]

\* leaving _refresh_selection_cache: back in select_random_album, or at the
\* end of trigger_cache_refresh, which releases cache_lock
EndRefresh(t) ==
    IF sarg[t].op = "select"
    THEN /\ spc' = [spc EXCEPT ![t] = "draw"]
         /\ sarg' = [sarg EXCEPT ![t].entries = <<>>]
         /\ UNCHANGED cache_lock
    ELSE /\ spc' = [spc EXCEPT ![t] = "idle"]
         /\ sarg' = [sarg EXCEPT ![t] = NoSelArg]
         /\ cache_lock' = NoThread

\* the store raises inside the with block of line 354: the connection rolls
\* back what the refresh wrote and control is in the handler of line 443
RefreshRaises(t) ==
    /\ spc' = [spc EXCEPT ![t] = "refresh_failed"]
    /\ sarg' = [sarg EXCEPT ![t].entries = <<>>]
    /\ UNCHANGED cache_lock

\* lines 443-444: the handler logs the error and the refresh returns
refresh_except(t) ==
    /\ spc[t] = "refresh_failed"
    /\ EndRefresh(t)
    /\ UNCHANGED <<albums, intelligent_cache, txn, selection_history, history,
                   last_cache_refresh, metrics, sret, committed, refreshed_at,
                   month, start_hour, now>>

\* lines 354-423: read the albums and compute cache_entries; without albums
\* the refresh returns at line 368
refresh_read(t, ok) ==
    /\ spc[t] = "refresh"
    /\ IF ~ok
       THEN RefreshRaises(t)
       ELSE IF DOMAIN albums # {}
            THEN /\ spc' = [spc EXCEPT ![t] = "refresh_delete"]
                 /\ sarg' = [sarg EXCEPT ![t].entries = CacheEntries]
                 /\ UNCHANGED cache_lock
            ELSE EndRefresh(t)
    /\ UNCHANGED <<albums, intelligent_cache, txn, selection_history, history,
                   last_cache_refresh, metrics, sret, committed, refreshed_at,
                   month, start_hour, now>>

\* a refresh whose DELETE is committed at once and is not covered by
\* cache_lock: the emptied table is there for any reader
refresh_delete_in_the_open(t, ok) ==
    /\ spc[t] = "refresh_delete"
    /\ IF ok
       THEN /\ intelligent_cache' = <<>>
            /\ txn' = [owner |-> t, table |-> <<>>]
            /\ spc' = [spc EXCEPT ![t] = "refresh_insert"]
            /\ cache_lock' = NoThread
            /\ UNCHANGED sarg
       ELSE /\ txn' = NoTxn
            /\ RefreshRaises(t)
            /\ UNCHANGED intelligent_cache
    /\ UNCHANGED <<albums, selection_history, history, last_cache_refresh,
                   metrics, sret, committed, refreshed_at, month, start_hour,
                   now>>

\* line 426: DELETE FROM intelligent_cache opens the write transaction
refresh_delete(t, ok) ==
    /\ spc[t] = "refresh_delete"
    /\ IF ok
       THEN /\ txn' = [owner |-> t, table |-> <<>>]
            /\ spc' = [spc EXCEPT ![t] = "refresh_insert"]
            /\ UNCHANGED <<sarg, cache_lock>>
       ELSE /\ txn' = NoTxn
            /\ RefreshRaises(t)
    /\ UNCHANGED <<albums, intelligent_cache, selection_history, history,
                   last_cache_refresh, metrics, sret, committed, refreshed_at,
                   month, start_hour, now>>

\* a refresh whose rows stay in the table when an INSERT fails
refresh_insert_without_rollback(t, ok) ==
    /\ spc[t] = "refresh_insert"
    /\ Len(txn.table) < Len(sarg[t].entries)
    /\ IF ok
       THEN /\ txn' = [txn EXCEPT !.table =
                          InsertRow(@, sarg[t].entries[Len(@) + 1])]
            /\ UNCHANGED <<spc, sarg, cache_lock, intelligent_cache>>
       ELSE /\ txn' = NoTxn
            /\ intelligent_cache' = txn.table
            /\ RefreshRaises(t)
    /\ UNCHANGED <<albums, selection_history, history,
                   last_cache_refresh, metrics, sret, committed, refreshed_at,
                   month, start_hour, now>>

\* lines 428-434: executemany inserts the next row; an error rolls back
refresh_insert(t, ok) ==
    /\ spc[t] = "refresh_insert"
    /\ Len(txn.table) < Len(sarg[t].entries)
    /\ IF ok
       THEN /\ txn' = [txn EXCEPT !.table =
                          InsertRow(@, sarg[t].entries[Len(@) + 1])]
            /\ UNCHANGED <<spc, sarg, cache_lock>>
       ELSE /\ txn' = NoTxn
            /\ RefreshRaises(t)
    /\ UNCHANGED <<albums, intelligent_cache, selection_history, history,
                   last_cache_refresh, metrics, sret, committed, refreshed_at,
                   month, start_hour, now>>

\* lines 436-441: commit, then last_cache_refresh = datetime.now()
refresh_commit(t, ok) ==
    /\ spc[t] = "refresh_insert"
    /\ Len(txn.table) = Len(sarg[t].entries)
    /\ IF ok
       THEN /\ intelligent_cache' = txn.table
            /\ committed' = AlbumIds(sarg[t].entries)
            /\ refreshed_at' = now
            /\ last_cache_refresh' = now
            /\ EndRefresh(t)
       ELSE /\ RefreshRaises(t)
            /\ UNCHANGED <<intelligent_cache, committed, refreshed_at,
                           last_cache_refresh>>
    /\ txn' = NoTxn
    /\ UNCHANGED <<albums, selection_history, history, metrics, sret, month,
                   start_hour, now>>

(***************************************************************************)
(* RandomAlgorithm.select_random_album (src/random_algorithm.py:446-521)   *)
(***************************************************************************)
\* how many select_random_album calls are counted or under way
SelectCalls ==
    metrics.total_selections
        + Cardinality({u \in Threads : sarg[u].op = "select"})

select_call(t, session_id) ==
    /\ spc[t] = "idle"
    /\ SelectCalls < MaxSelections
    /\ spc' = [spc EXCEPT ![t] = "select_wait"]
    /\ sarg' = [sarg EXCEPT ![t] = [op |-> "select", session |-> session_id,
                                    entries |-> <<>>]]
    /\ UNCHANGED <<albums, intelligent_cache, txn, selection_history, history,
                   last_cache_refresh, cache_lock, metrics, sret, committed,
                   refreshed_at,
                   month, start_hour, now>>

\* lines 451-455: with self.cache_lock, refresh a cache older than an hour.
\* The clock counts whole hours, so a cache refreshed in the hour before this
\* one may or may not be more than 3600 seconds old (over_an_hour).
select_acquire(t, over_an_hour) ==
    /\ spc[t] = "select_wait"
    /\ cache_lock = NoThread
    /\ over_an_hour => now - last_cache_refresh >= 1
    /\ ~over_an_hour => now - last_cache_refresh <= 1
    /\ cache_lock' = t
    /\ spc' = [spc EXCEPT ![t] = IF over_an_hour THEN "refresh" ELSE "draw"]
    /\ UNCHANGED <<albums, intelligent_cache, txn, selection_history, history,
                   last_cache_refresh, metrics, sarg, sret, committed,
                   refreshed_at, month,
                   start_hour, now>>

\* what the connection of thread t reads: the committed rows, and its own
\* uncommitted ones
ReadCache(t) == IF txn.owner = t THEN txn.table ELSE intelligent_cache

\* lines 461-470: rows of intelligent_cache JOIN albums with a positive weight
Candidates(t) ==
    {i \in 1..Len(ReadCache(t)) :
        /\ ReadCache(t)[i].album_id \in DOMAIN albums
        /\ ReadCache(t)[i].final_weight > 0}

\* dict(result) of the weighted query: ic.* comes first, so the key id is the
\* rowid of the weight row; rating and play_count are no columns of the query
WeightedAlbum(row) ==
    [id |-> row.id, album_id |-> row.album_id,
     genres |-> albums[row.album_id].genres,
     artist |-> albums[row.album_id].artist,
     rating |-> 0, play_count |-> 0, has_final_weight |-> TRUE]

\* dict(result) of the fallback query SELECT * FROM albums
FallbackAlbum(a) ==
    [id |-> a, album_id |-> a, genres |-> albums[a].genres,
     artist |-> albums[a].artist, rating |-> albums[a].rating,
     play_count |-> albums[a].play_count, has_final_weight |-> FALSE]

\* _record_selection (lines 523-546): the record of the durable log
\* drawn is the id of the album the record was written for
LogRecord(album, session_id) ==
    [album_id |-> album.id, session_id |-> session_id, selected_at |-> now,
     user_feedback |-> NoFeedback, drawn |-> album.album_id]

\* lines 500-505: UPDATE intelligent_cache ... WHERE album_id = album['id']
UpdateServed(table, album) ==
    [i \in 1..Len(table) |->
        IF table[i].album_id = album.id
        THEN [table[i] EXCEPT !.times_served = @ + 1, !.last_served = now]
        ELSE table[i]]

\* lines 484-515: the drawn row becomes the result; log, cache row, history
\* and metrics are updated
Serve(album, session_id, log_ok) ==
    /\ selection_history' = IF log_ok
                            THEN Append(selection_history,
                                        LogRecord(album, session_id))
                            ELSE selection_history
    /\ intelligent_cache' = IF album.has_final_weight
                            THEN UpdateServed(intelligent_cache, album)
                            ELSE intelligent_cache
    /\ history' = add_selection(history, album)
    /\ metrics' = [metrics EXCEPT !.total_selections = @ + 1]
    /\ sret' = [kind |-> "album", id |-> album.id, album_id |-> album.album_id,
                from_cache |-> album.has_final_weight, at |-> now,
                error |-> FALSE, logged |-> log_ok]

\* a select_random_album without the handler of lines 517-521
OnSelectErrorRaise == "raise"

\* what the handler of lines 517-521 answers to an exception of the draw
OnSelectError == "null"

\* a select_random_album that counts a play of the album it returns
select_draw_counting_play(t, ok, log_ok) ==
    /\ spc[t] = "draw"
    /\ cache_lock' = NoThread
    /\ spc' = [spc EXCEPT ![t] = "idle"]
    /\ sarg' = [sarg EXCEPT ![t] = NoSelArg]
    /\ IF ~ok
       THEN /\ log_ok
            /\ metrics' = [metrics EXCEPT !.total_selections = @ + 1]
            /\ sret' = [NoResult EXCEPT !.kind = OnSelectError, !.at = now,
                                        !.error = TRUE]
            /\ UNCHANGED <<selection_history, intelligent_cache, history, albums>>
       ELSE IF Candidates(t) # {}
       THEN \E i \in Candidates(t) :
               /\ Serve(WeightedAlbum(ReadCache(t)[i]), sarg[t].session, log_ok)
               /\ albums' = [albums EXCEPT
                                ![ReadCache(t)[i].album_id].play_count = @ + 1]
       ELSE IF DOMAIN albums # {}
       THEN \E a \in DOMAIN albums :
               /\ Serve(FallbackAlbum(a), sarg[t].session, log_ok)
               /\ albums' = [albums EXCEPT ![a].play_count = @ + 1]
       ELSE /\ log_ok
            /\ sret' = [NoResult EXCEPT !.kind = "null", !.at = now]
            /\ UNCHANGED <<selection_history, intelligent_cache, history,
                           metrics, albums>>
    /\ UNCHANGED <<txn, last_cache_refresh, committed, refreshed_at, month,
                   start_hour, now>>

\* a select_random_album whose handler returns None with cache_lock held
select_draw_keeping_lock(t, ok, log_ok) ==
    /\ spc[t] = "draw"
    /\ cache_lock' = IF ok THEN NoThread ELSE cache_lock
    /\ spc' = [spc EXCEPT ![t] = "idle"]
    /\ sarg' = [sarg EXCEPT ![t] = NoSelArg]
    /\ IF ~ok
       THEN /\ log_ok
            /\ metrics' = [metrics EXCEPT !.total_selections = @ + 1]
            /\ sret' = [NoResult EXCEPT !.kind = OnSelectError, !.at = now,
                                        !.error = TRUE]
            /\ UNCHANGED <<selection_history, intelligent_cache, history>>
       ELSE IF Candidates(t) # {}
       THEN \E i \in Candidates(t) :
               Serve(WeightedAlbum(ReadCache(t)[i]), sarg[t].session, log_ok)
       ELSE IF DOMAIN albums # {}
       THEN \E a \in DOMAIN albums :
               Serve(FallbackAlbum(a), sarg[t].session, log_ok)
       ELSE /\ log_ok
            /\ sret' = [NoResult EXCEPT !.kind = "null", !.at = now]
            /\ UNCHANGED <<selection_history, intelligent_cache, history, metrics>>
    /\ UNCHANGED <<albums, txn, last_cache_refresh, committed, refreshed_at,
                   month, start_hour, now>>

\* lines 457-521: the draw and its bookkeeping, leaving cache_lock on return;
\* ok = FALSE is a store that raises, log_ok = FALSE one that raises only
\* inside _record_selection, which swallows it
select_draw(t, ok, log_ok) ==
    /\ spc[t] = "draw"
    /\ cache_lock' = NoThread
    /\ spc' = [spc EXCEPT ![t] = "idle"]
    /\ sarg' = [sarg EXCEPT ![t] = NoSelArg]
    /\ IF ~ok
       THEN /\ log_ok
            /\ metrics' = [metrics EXCEPT !.total_selections = @ + 1]
            /\ sret' = [NoResult EXCEPT !.kind = OnSelectError, !.at = now,
                                        !.error = TRUE]
            /\ UNCHANGED <<selection_history, intelligent_cache, history>>
       ELSE IF Candidates(t) # {}
       THEN \E i \in Candidates(t) :
               Serve(WeightedAlbum(ReadCache(t)[i]), sarg[t].session, log_ok)
       ELSE IF DOMAIN albums # {}
       THEN \E a \in DOMAIN albums :
               Serve(FallbackAlbum(a), sarg[t].session, log_ok)
       ELSE \* line 482: return None
            /\ log_ok
            /\ sret' = [NoResult EXCEPT !.kind = "null", !.at = now]
            /\ UNCHANGED <<selection_history, intelligent_cache, history, metrics>>
    /\ UNCHANGED <<albums, txn, last_cache_refresh, committed, refreshed_at,
                   month, start_hour, now>>

\* ---- the failure path of select_random_album step by step
\* (src/random_algorithm.py:517-521, 548-551): the handler runs after the
\* with block has released cache_lock, and `total_selections += 1` reads the
\* attribute, adds one and stores the sum, with other threads free to run in
\* between

TallyInit ==
    tally = [made |-> 0, done |-> 0, read |-> [t \in Threads |-> NoValue]]

\* select_random_album is called (line 446)
counted_call(t, session_id) ==
    /\ tally.made < MaxSelections
    /\ select_call(t, session_id)
    /\ tally' = [tally EXCEPT !.made = @ + 1]

\* the draw succeeds: lines 456-515 with _update_metrics(elapsed_ms, True)
\* inside the with block
counted_draw(t, log_ok) ==
    /\ select_draw(t, TRUE, log_ok)
    /\ tally' = [tally EXCEPT !.done = @ + 1]

\* the draw raises: the with block is left and the handler of line 517 entered
select_raise(t) ==
    /\ spc[t] = "draw"
    /\ cache_lock' = NoThread
    /\ spc' = [spc EXCEPT ![t] = "except"]
    /\ UNCHANGED <<albums, intelligent_cache, txn, selection_history, history,
                   last_cache_refresh, metrics, sarg, sret, committed,
                   refreshed_at, month, start_hour, now, tally>>

\* line 551, first half: the value of self.metrics.total_selections is read
update_metrics_read(t) ==
    /\ spc[t] = "except"
    /\ tally' = [tally EXCEPT !.read[t] = metrics.total_selections]
    /\ spc' = [spc EXCEPT ![t] = "update"]
    /\ UNCHANGED <<albums, intelligent_cache, txn, selection_history, history,
                   last_cache_refresh, cache_lock, metrics, sarg, sret,
                   committed, refreshed_at, month, start_hour, now>>

\* line 551, second half, and line 521: the sum is stored and None returned
update_metrics_write(t) ==
    /\ spc[t] = "update"
    /\ metrics' = [metrics EXCEPT !.total_selections = tally.read[t] + 1]
    /\ tally' = [tally EXCEPT !.read[t] = NoValue, !.done = @ + 1]
    /\ spc' = [spc EXCEPT ![t] = "idle"]
    /\ sarg' = [sarg EXCEPT ![t] = NoSelArg]
    /\ sret' = [NoResult EXCEPT !.kind = OnSelectError, !.at = now,
                                !.error = TRUE]
    /\ UNCHANGED <<albums, intelligent_cache, txn, selection_history, history,
                   last_cache_refresh, cache_lock, committed, refreshed_at, month,
                   start_hour, now>>

(***************************************************************************)
(* The weighted query of select_random_album (lines 461-468)               *)
(***************************************************************************)
Randoms == (0 - MaxRandom)..MaxRandom

\* one value of RANDOM() for each row of the join
RandomValues(t) == [Candidates(t) -> Randoms]

\* ORDER BY RANDOM() * ic.final_weight DESC LIMIT 1: a row whose product no
\* other row exceeds; rows with the same product tie and SQLite takes one
TopRows(t, r) ==
    {i \in Candidates(t) : \A j \in Candidates(t) :
        r[j] * ReadCache(t)[j].final_weight <= r[i] * ReadCache(t)[i].final_weight}

\* select_random_album with the values of RANDOM() as its input: the draw of
\* select_draw, the row taken as the query takes it
select_draw_random(t, r, ok, log_ok) ==
    /\ spc[t] = "draw"
    /\ cache_lock' = NoThread
    /\ spc' = [spc EXCEPT ![t] = "idle"]
    /\ sarg' = [sarg EXCEPT ![t] = NoSelArg]
    /\ IF ~ok
       THEN /\ log_ok
            /\ metrics' = [metrics EXCEPT !.total_selections = @ + 1]
            /\ sret' = [NoResult EXCEPT !.kind = OnSelectError, !.at = now,
                                        !.error = TRUE]
            /\ UNCHANGED <<selection_history, intelligent_cache, history>>
       ELSE IF Candidates(t) # {}
       THEN \E i \in TopRows(t, r) :
               Serve(WeightedAlbum(ReadCache(t)[i]), sarg[t].session, log_ok)
       ELSE IF DOMAIN albums # {}
       THEN \E a \in DOMAIN albums :
               Serve(FallbackAlbum(a), sarg[t].session, log_ok)
       ELSE /\ log_ok
            /\ sret' = [NoResult EXCEPT !.kind = "null", !.at = now]
            /\ UNCHANGED <<selection_history, intelligent_cache, history, metrics>>
    /\ UNCHANGED <<albums, txn, last_cache_refresh, committed, refreshed_at,
                   month, start_hour, now>>

(***************************************************************************)
(* RandomAlgorithm.trigger_cache_refresh (src/random_algorithm.py:708-711) *)
(***************************************************************************)
trigger_call(t) ==
    /\ spc[t] = "idle"
    /\ spc' = [spc EXCEPT ![t] = "trigger_wait"]
    /\ sarg' = [sarg EXCEPT ![t] = [NoSelArg EXCEPT !.op = "trigger"]]
    /\ UNCHANGED <<albums, intelligent_cache, txn, selection_history, history,
                   last_cache_refresh, cache_lock, metrics, sret, committed,
                   refreshed_at,
                   month, start_hour, now>>

trigger_acquire(t) ==
    /\ spc[t] = "trigger_wait"
    /\ cache_lock = NoThread
    /\ cache_lock' = t
    /\ spc' = [spc EXCEPT ![t] = "refresh"]
    /\ UNCHANGED <<albums, intelligent_cache, txn, selection_history, history,
                   last_cache_refresh, metrics, sarg, sret, committed,
                   refreshed_at, month,
                   start_hour, now>>

(***************************************************************************)
(* RandomAlgorithm.record_user_feedback (src/random_algorithm.py:575-600)  *)
(***************************************************************************)
Feedbacks == {-1, 0, 1}
\* the sessions feedback arrives from: the one that selects and another one
FeedbackSessions == Sessions \cup {"s2"}
\* AlgorithmConfig.feedback_learning_rate, in thousandths
feedback_learning_rate == 100

NoFeedbackCall == [n |-> 0, album_id |-> 0, feedback |-> 0,
                   session_id |-> "none", error |-> FALSE]

\* WHERE album_id = ? AND session_id = ? AND user_feedback IS NULL
FeedbackRows(album_id, session_id) ==
    {i \in 1..Len(selection_history) :
        /\ selection_history[i].album_id = album_id
        /\ selection_history[i].session_id = session_id
        /\ selection_history[i].user_feedback = NoFeedback}

\* ORDER BY selected_at DESC LIMIT 1: a row no other matching row is newer
\* than; rows written in the same second tie and SQLite may take any of them
NewestRows(rows) ==
    {i \in rows : \A j \in rows :
        selection_history[j].selected_at <= selection_history[i].selected_at}

\* lines 590-597: the moving average of the satisfaction score
SatisfactionAfter(score, feedback) ==
    IF feedback = 0 THEN score
    ELSE Mul(feedback_learning_rate, IF feedback > 0 THEN 1000 ELSE 0)
           + Mul(1000 - feedback_learning_rate, score)

\* a record_user_feedback that takes a neutral feedback for a like
record_user_feedback_counting_neutral(album_id, feedback, session_id, ok) ==
    /\ fret.n < MaxFeedbacks
    /\ fret' = [n |-> fret.n + 1, album_id |-> album_id, feedback |-> feedback,
                session_id |-> session_id, error |-> ~ok]
    /\ IF ok
       THEN /\ LET rows == FeedbackRows(album_id, session_id)
               IN IF rows = {}
                  THEN UNCHANGED selection_history
                  ELSE \E i \in NewestRows(rows) :
                          selection_history' =
                             [selection_history EXCEPT ![i].user_feedback = feedback]
            /\ metrics' = [metrics EXCEPT !.user_satisfaction_score =
                              SatisfactionAfter(@, IF feedback = 0 THEN 1 ELSE feedback)]
       ELSE UNCHANGED <<selection_history, metrics>>
    /\ UNCHANGED <<albums, intelligent_cache, txn, history, last_cache_refresh,
                   cache_lock, spc, sarg, sret, committed, refreshed_at,
                   month, start_hour, now>>

\* the whole call: one UPDATE, committed, then the metric; ok = FALSE is a
\* store that raises, which the handler of line 599 logs
record_user_feedback(album_id, feedback, session_id, ok) ==
    /\ fret.n < MaxFeedbacks
    /\ fret' = [n |-> fret.n + 1, album_id |-> album_id, feedback |-> feedback,
                session_id |-> session_id, error |-> ~ok]
    /\ IF ok
       THEN /\ LET rows == FeedbackRows(album_id, session_id)
               IN IF rows = {}
                  THEN UNCHANGED selection_history
                  ELSE \E i \in NewestRows(rows) :
                          selection_history' =
                             [selection_history EXCEPT ![i].user_feedback = feedback]
            /\ metrics' = [metrics EXCEPT !.user_satisfaction_score =
                              SatisfactionAfter(@, feedback)]
       ELSE UNCHANGED <<selection_history, metrics>>
    /\ UNCHANGED <<albums, intelligent_cache, txn, history, last_cache_refresh,
                   cache_lock, spc, sarg, sret, committed, refreshed_at,
                   month, start_hour, now>>

(***************************************************************************)
(* AlgorithmConfig and the construction of the engine                      *)
(* (src/random_algorithm.py 40-67, 247-259)                                *)
(***************************************************************************)
\* the weights a caller passes, in thousandths
ConfigWeights == {-100, 200, 500}

\* ---- calculate_rating_weight for any config.rating_weight
\* (src/random_algorithm.py:124-130), with the rounding of its float addition

\* a rating_weight is n thousandths, or n units of 2^-60 (about 8.7e-19)
RatingWeights ==
    [scale : {"thousandth"}, n : {-100, 0, 200, 2000}]
       \cup [scale : {"tiny"}, n : {1, 8, 40, 116, 1153}]

Ratings == 1..5

\* a result is <<thousandths, floats above that>>: the floats next to 0.1 are
\* 2^-56 apart
NoFactor == <<NoValue, NoValue>>

NoRated ==
    [weight |-> [scale |-> "thousandth", n |-> 0],
     factor |-> [r \in Ratings |-> NoFactor]]

\* x / d rounded to the nearest integer, a tie to the even one (0.1 has an
\* even significand)
RoundHalfEven(x, d) ==
    LET q == x \div d
        rem == x % d
    IN IF 2 * rem < d THEN q
       ELSE IF 2 * rem > d THEN q + 1
       ELSE IF q % 2 = 0 THEN q ELSE q + 1

\* a calculate_rating_weight that takes five stars for four
calculate_rating_weight_capped(rating, weight) ==
    LET capped == IF rating > 4 THEN 4 ELSE rating
    IN IF weight.scale = "thousandth"
       THEN <<(capped * capped * weight.n) \div 25 + 100, 0>>
       ELSE <<100, RoundHalfEven(capped * capped * weight.n, 400)>>

\* math.pow(rating / 5.0, 2) * self.config.rating_weight + 0.1 for a rating
\* of 1..5: exact for the weights in thousandths, which are multiples of
\* 0.025; for a tiny weight the product is rating^2 * n / 25 units of 2^-60,
\* that is rating^2 * n / 400 floats above 0.1, and the sum is the nearest float
calculate_rating_weight_of(rating, weight) ==
    IF weight.scale = "thousandth"
    THEN <<(rating * rating * weight.n) \div 25 + 100, 0>>
    ELSE <<100, RoundHalfEven(rating * rating * weight.n, 400)>>

\* WeightCalculator(config).calculate_rating_weight(rating) is called
rate(rating) ==
    /\ rated.factor[rating] = NoFactor
    /\ rated' = [rated EXCEPT
                    !.factor[rating] = calculate_rating_weight_of(rating, rated.weight)]
    /\ UNCHANGED <<config, engine_config>>

NoConfig ==
    [built |-> FALSE, rating_weight |-> 0, play_count_weight |-> 0,
     recency_weight |-> 0, genre_diversity_weight |-> 0]

\* AlgorithmConfig(): the defaults of lines 44-47
DefaultConfig ==
    [built |-> TRUE, rating_weight |-> rating_weight,
     play_count_weight |-> play_count_weight,
     recency_weight |-> recency_weight,
     genre_diversity_weight |-> genre_diversity_weight]

\* AlgorithmConfig(rating_weight=r, ...): the generated __init__ of the
\* dataclass assigns the fields; the class has no __post_init__
AlgorithmConfig(r, p, c, g) ==
    /\ config' = [built |-> TRUE, rating_weight |-> r, play_count_weight |-> p,
                  recency_weight |-> c, genre_diversity_weight |-> g]
    /\ UNCHANGED <<engine_config, rated>>

\* RandomAlgorithm(db_path, config): self.config = config or AlgorithmConfig()
RandomAlgorithm(given) ==
    /\ given => config.built
    /\ engine_config' = IF given THEN config ELSE DefaultConfig
    /\ UNCHANGED <<config, rated>>

CfgInit ==
    /\ config = NoConfig
    /\ engine_config = NoConfig
    /\ rated = NoRated

(***************************************************************************)
(* LRUCache calls as ImageCache makes them: each runs under LRUCache.lock  *)
(* from its first statement to its return (src/image_cache.py:163-250)     *)
(***************************************************************************)
LRUState ==
    [data |-> cache_data, order |-> cache_order, size |-> current_size_bytes,
     files |-> files, evictions |-> stats.evictions]

\* the loop of lines 194-196 with _evict_lru of lines 210-231
RECURSIVE EvictLoop(_, _)
EvictLoop(st, entry) ==
    IF st.size + entry.file_size > max_size_bytes /\ st.order # <<>>
    THEN LET lru_key == Head(st.order)
         IN EvictLoop([data |-> MapRemove(st.data, lru_key),
                       order |-> Tail(st.order),
                       size |-> st.size - st.data[lru_key].file_size,
                       files |-> st.files \ {lru_key},
                       evictions |-> st.evictions + 1], entry)
    ELSE st

\* LRUCache.put(key, entry) on the cache in state st: the state it leaves and
\* what it returns
LRUPutIn(st, key, entry) ==
    LET replaced == IF key \in DOMAIN st.data
                    THEN [st EXCEPT !.data = MapRemove(st.data, key),
                                    !.order = SeqRemove(st.order, key),
                                    !.size = st.size - st.data[key].file_size]
                    ELSE st
        room == EvictLoop(replaced, entry)
    IN IF entry.file_size > max_size_bytes
       THEN [st |-> room, val |-> FALSE]
       ELSE [st |-> [room EXCEPT !.data = MapPut(room.data, key, entry),
                                 !.order = Append(room.order, key),
                                 !.size = room.size + entry.file_size],
             val |-> TRUE]

\* LRUCache.put(key, entry) on self.lru_cache
LRUPut(key, entry) == LRUPutIn(LRUState, key, entry)

\* LRUCache.remove(key): the state it leaves and what it returns
LRURemove(st, key) ==
    IF key \in DOMAIN st.data
    THEN [st |-> [st EXCEPT !.data = MapRemove(st.data, key),
                            !.order = SeqRemove(st.order, key),
                            !.size = st.size - st.data[key].file_size,
                            !.files = st.files \ {key}],
          val |-> TRUE]
    ELSE [st |-> st, val |-> FALSE]

\* the LRUCache is left in state st
LRUBecomes(st) ==
    /\ cache_data' = st.data
    /\ cache_order' = st.order
    /\ current_size_bytes' = st.size
    /\ files' = st.files
    /\ stats' = [stats EXCEPT !.evictions = st.evictions]

(***************************************************************************)
(* ImageCache (src/image_cache.py:283-739)                                 *)
(***************************************************************************)
Urls == {"", "u1", "u2"}
SizeTypes == {"thumbnails", "detail"}
\* sizes of a transcoded image: one that fits and one larger than the budget
ImageSizes == {4, max_size_bytes + 1}
\* timeout, non-2xx status, content type that is no image, payload over 10 MB
FetchFailures == {"timeout", "http_error", "not_image", "too_large"}
FetchOutcomes == {"ok"} \cup FetchFailures
HoursPerDay == 24

\* sha256 of "url:size_type": one key for each pair
_generate_cache_key(url, size_type) ==
    CASE url = "u1" /\ size_type = "thumbnails" -> "k1"
      [] url = "u1" /\ size_type = "detail" -> "k2"
      [] url = "u2" /\ size_type = "thumbnails" -> "k3"
      [] url = "u2" /\ size_type = "detail" -> "k4"

NoEntry == [file_size |-> 0, last_accessed |-> 0, access_count |-> 0]

NoImageArg == [key |-> "none", entry |-> NoEntry, put_ok |-> FALSE]

NoImageReturn == [key |-> "none", path |-> FALSE, why |-> "none", raised |-> FALSE]

NoCleanup == [n |-> 0, max_age_days |-> 0, val |-> 0, error |-> FALSE]

ImgInit ==
    /\ image_cache = EmptyMap
    /\ ipc = [t \in Threads |-> "idle"]
    /\ iarg = [t \in Threads |-> NoImageArg]
    /\ iret = NoImageReturn
    /\ image_calls = 0
    /\ cret = NoCleanup

\* get_image returns to its caller
Return(t, key, path, why) ==
    /\ iret' = [key |-> key, path |-> path, why |-> why, raised |-> FALSE]
    /\ ipc' = [ipc EXCEPT ![t] = "idle"]
    /\ iarg' = [iarg EXCEPT ![t] = NoImageArg]

\* _save_cache_entry (lines 463-485): INSERT OR REPLACE of the row of the
\* key; a store error (ok = FALSE) is logged and nothing is written
_save_cache_entry(key, entry, ok) ==
    image_cache' = IF ok THEN MapPut(image_cache, key, entry) ELSE image_cache

\* get_image, lines 564-570: no URL, or the key and LRUCache.get
get_image_lookup(t, url, size_type) ==
    /\ ipc[t] = "idle"
    /\ IF url = ""
       THEN /\ iret' = [key |-> "none", path |-> FALSE, why |-> "no_url",
                        raised |-> FALSE]
            /\ UNCHANGED <<cache_data, cache_order, stats, ipc, iarg>>
       ELSE LET key == _generate_cache_key(url, size_type)
            IN IF key \in DOMAIN cache_data
               THEN /\ cache_data' = [cache_data EXCEPT
                                        ![key].last_accessed = now,
                                        ![key].access_count = @ + 1]
                    /\ cache_order' = Append(SeqRemove(cache_order, key), key)
                    /\ stats' = [stats EXCEPT !.total_requests = @ + 1,
                                              !.hits = @ + 1]
                    /\ ipc' = [ipc EXCEPT ![t] = "hit"]
                    /\ iarg' = [iarg EXCEPT ![t] =
                                   [key |-> key, entry |-> cache_data'[key],
                                    put_ok |-> FALSE]]
                    /\ UNCHANGED iret
               ELSE /\ stats' = [stats EXCEPT !.total_requests = @ + 1,
                                              !.misses = @ + 1]
                    /\ ipc' = [ipc EXCEPT ![t] = "fetch"]
                    /\ iarg' = [iarg EXCEPT ![t] =
                                   [key |-> key, entry |-> NoEntry,
                                    put_ok |-> FALSE]]
                    /\ UNCHANGED <<cache_data, cache_order, iret>>
    /\ UNCHANGED <<current_size_bytes, files, image_cache, cret, now>>

\* a get_image call of a caller of ImageCache
get_image(t, url, size_type) ==
    /\ image_calls < MaxImageCalls
    /\ image_calls' = image_calls + 1
    /\ get_image_lookup(t, url, size_type)

\* the entry object get returned, as it is when the caller reads it: the one
\* stored under the key, which later gets update in place
EntryObject(t) ==
    IF iarg[t].key \in DOMAIN cache_data
    THEN cache_data[iarg[t].key]
    ELSE iarg[t].entry

\* get_image, lines 571-577: a hit whose file exists saves the access and
\* returns the path; without the file the image is processed again
get_image_hit(t, ok) ==
    /\ ipc[t] = "hit"
    /\ IF iarg[t].key \in files
       THEN /\ _save_cache_entry(iarg[t].key, EntryObject(t), ok)
            /\ Return(t, iarg[t].key, TRUE, "hit")
       ELSE /\ ipc' = [ipc EXCEPT ![t] = "fetch"]
            /\ iarg' = [iarg EXCEPT ![t].entry = NoEntry]
            /\ UNCHANGED <<image_cache, iret>>
    /\ UNCHANGED <<cache_data, cache_order, current_size_bytes, stats, files,
                   image_calls, cret, now>>

\* a download that lets the error of a response that is no image through
process_image_raising(t, outcome, size) ==
    /\ ipc[t] = "fetch"
    /\ IF outcome = "ok"
       THEN /\ files' = files \cup {iarg[t].key}
            /\ ipc' = [ipc EXCEPT ![t] = "put"]
            /\ iarg' = [iarg EXCEPT ![t].entry = NewEntry(size)]
            /\ UNCHANGED iret
       ELSE /\ files' = files \ {iarg[t].key}
            /\ iret' = [key |-> iarg[t].key, path |-> FALSE, why |-> outcome,
                        raised |-> outcome = "not_image"]
            /\ ipc' = [ipc EXCEPT ![t] = "idle"]
            /\ iarg' = [iarg EXCEPT ![t] = NoImageArg]
    /\ UNCHANGED <<cache_data, cache_order, current_size_bytes, stats,
                   image_cache, image_calls, cret, now>>

\* _process_and_cache_image, lines 492-529 and 543-551: _download_image
\* (lines 437-461), transcoding and the write of the file; every error of
\* the download ends in the handler, which unlinks the file of the key
process_image(t, outcome, size) ==
    /\ ipc[t] = "fetch"
    /\ IF outcome = "ok"
       THEN /\ files' = files \cup {iarg[t].key}
            /\ ipc' = [ipc EXCEPT ![t] = "put"]
            /\ iarg' = [iarg EXCEPT ![t].entry = NewEntry(size)]
            /\ UNCHANGED iret
       ELSE /\ files' = files \ {iarg[t].key}
            /\ Return(t, iarg[t].key, FALSE, outcome)
    /\ UNCHANGED <<cache_data, cache_order, current_size_bytes, stats,
                   image_cache, image_calls, cret, now>>

\* _process_and_cache_image, line 532: self.lru_cache.put(cache_key, entry)
process_put(t) ==
    /\ ipc[t] = "put"
    /\ LET r == LRUPut(iarg[t].key, iarg[t].entry)
       IN /\ LRUBecomes(r.st)
          /\ iarg' = [iarg EXCEPT ![t].put_ok = r.val]
    /\ ipc' = [ipc EXCEPT ![t] = "after_put"]
    /\ UNCHANGED <<image_cache, iret, image_calls, cret, now>>

\* a rejected insert that leaves the file it wrote
process_finish_keeping_file(t, ok) ==
    /\ ipc[t] = "after_put"
    /\ IF iarg[t].put_ok
       THEN /\ _save_cache_entry(iarg[t].key, iarg[t].entry, ok)
            /\ Return(t, iarg[t].key, TRUE, "cached")
            /\ UNCHANGED files
       ELSE /\ Return(t, iarg[t].key, FALSE, "rejected")
            /\ UNCHANGED <<files, image_cache>>
    /\ UNCHANGED <<cache_data, cache_order, current_size_bytes, stats,
                   image_calls, cret, now>>

\* _process_and_cache_image, lines 533-541: save the row and return the
\* entry, or unlink the file of a rejected insert and return None
process_finish(t, ok) ==
    /\ ipc[t] = "after_put"
    /\ IF iarg[t].put_ok
       THEN /\ _save_cache_entry(iarg[t].key, iarg[t].entry, ok)
            /\ Return(t, iarg[t].key, TRUE, "cached")
            /\ UNCHANGED files
       ELSE /\ files' = files \ {iarg[t].key}
            /\ Return(t, iarg[t].key, FALSE, "rejected")
            /\ UNCHANGED image_cache
    /\ UNCHANGED <<cache_data, cache_order, current_size_bytes, stats,
                   image_calls, cret, now>>

\* the rows cleanup_cache selects: last_accessed < cutoff_date
OldRows(max_age_days) ==
    {k \in DOMAIN image_cache :
        image_cache[k].last_accessed < now - HoursPerDay * max_age_days}

RECURSIVE RemoveAll(_, _)
RemoveAll(st, ks) ==
    IF ks = {} THEN [st |-> st, count |-> 0]
    ELSE LET k == CHOOSE x \in ks : TRUE
             r == LRURemove(st, k)
             rest == RemoveAll(r.st, ks \ {k})
         IN [st |-> rest.st, count |-> rest.count + (IF r.val THEN 1 ELSE 0)]

\* cleanup_cache (lines 694-739), called while no get_image is under way.
\* done is the set of old rows the loop of lines 720-729 has been through:
\* all of them when the store serves the call (ok), and the DELETEs are
\* committed; those before the statement that raised when it does not, and
\* the call returns 0 from the handler, the DELETEs not committed.
cleanup_cache(max_age_days, ok, done) ==
    /\ cret.n < MaxCleanups
    /\ \A t \in Threads : ipc[t] = "idle"
    /\ done \subseteq OldRows(max_age_days)
    /\ ok => done = OldRows(max_age_days)
    /\ LET r == RemoveAll(LRUState, done)
       IN /\ LRUBecomes(r.st)
          /\ image_cache' = IF ok
                            THEN [k \in DOMAIN image_cache \ done |-> image_cache[k]]
                            ELSE image_cache
          /\ cret' = [n |-> cret.n + 1, max_age_days |-> max_age_days,
                      val |-> IF ok THEN r.count ELSE 0, error |-> ~ok]
    /\ UNCHANGED <<ipc, iarg, iret, image_calls, now>>

(***************************************************************************)
(* ImageCache.__init__ on a used cache directory and table (lines 288-321, *)
(* 383-426)                                                                *)
(***************************************************************************)
\* SELECT * FROM image_cache ORDER BY last_accessed DESC: the keys in the
\* order the cursor hands the rows over; rows of the same time in any order
RowsByLastAccessed ==
    {q \in [1..Cardinality(DOMAIN image_cache) -> DOMAIN image_cache] :
        /\ \A i \in DOMAIN q, j \in DOMAIN q : q[i] = q[j] => i = j
        /\ \A i \in DOMAIN q, j \in DOMAIN q :
              i < j => image_cache[q[i]].last_accessed
                          >= image_cache[q[j]].last_accessed}

\* LRUCache.__init__ of line 308; the files are those of the directory
NewLRUCache ==
    [data |-> EmptyMap, order |-> <<>>, size |-> 0, files |-> files,
     evictions |-> 0]

\* lines 395-418: every row whose file exists is put into the LRU cache, in
\* the order of the cursor
RECURSIVE LoadRows(_)
LoadRows(q) ==
    IF q = <<>> THEN NewLRUCache
    ELSE LET before == LoadRows(SubSeq(q, 1, Len(q) - 1))
             cache_key == q[Len(q)]
         IN IF cache_key \in before.files
            THEN LRUPutIn(before, cache_key, image_cache[cache_key]).st
            ELSE before

\* ImageCache.__init__ in a new process: a new LRUCache, then
\* _load_cache_from_database; the rows without file are deleted and the
\* DELETEs committed.  ok = FALSE is a store that raises on the query, which
\* the handler of line 425 logs.
_load_cache_from_database(q, ok) ==
    /\ \A t \in Threads : ipc[t] = "idle"
    /\ started.loads < MaxRestarts
    /\ started' = [started EXCEPT !.loads = @ + 1]
    /\ LET st == IF ok THEN LoadRows(q) ELSE NewLRUCache
       IN /\ cache_data' = st.data
          /\ cache_order' = st.order
          /\ current_size_bytes' = st.size
          /\ files' = st.files
          /\ stats' = [ZeroStats EXCEPT !.evictions = st.evictions]
    /\ image_cache' = IF ok
                      THEN [k \in DOMAIN image_cache \cap files |-> image_cache[k]]
                      ELSE image_cache
    /\ UNCHANGED <<ipc, iarg, iret, image_calls, cret, now>>

(***************************************************************************)
(* ImageCache.preload_images (src/image_cache.py:593-641); the threads are *)
(* the two workers of self.executor (line 313)                             *)
(***************************************************************************)
NoPreload ==
    [pc |-> "none", urls |-> <<>>, total_urls |-> 0, results |-> EmptyMap,
     completed |-> 0, progress |-> <<>>, collected |-> {}]

PreInit ==
    /\ futures = <<>>
    /\ running = [t \in Threads |-> 0]
    /\ preload = NoPreload

\* lines 608-615: two futures for each URL that is not empty
RECURSIVE Submitted(_)
Submitted(urls) ==
    IF urls = <<>> THEN <<>>
    ELSE LET url == urls[Len(urls)]
             before == Submitted(SubSeq(urls, 1, Len(urls) - 1))
         IN IF url = "" THEN before
            ELSE before \o
                 <<[url |-> url, size_type |-> "thumbnails", state |-> "pending",
                    result |-> FALSE],
                   [url |-> url, size_type |-> "detail", state |-> "pending",
                    result |-> FALSE]>>

\* preload_images, lines 604-615: the call and its submissions
preload_images(urls) ==
    /\ preload.pc = "none"
    /\ futures' = Submitted(urls)
    /\ preload' = [NoPreload EXCEPT !.pc = "collecting", !.urls = urls,
                                    !.total_urls = Len(urls)]
    /\ UNCHANGED <<running, cache_data, cache_order, current_size_bytes, stats,
                   files, imgVars, now>>

\* a worker takes the next work item of the executor's queue and enters
\* get_image
run_future(t) ==
    /\ running[t] = 0
    /\ \E f \in 1..Len(futures) :
          /\ futures[f].state = "pending"
          /\ \A g \in 1..(f - 1) : futures[g].state # "pending"
          /\ get_image_lookup(t, futures[f].url, futures[f].size_type)
          /\ futures' = [futures EXCEPT ![f].state = "running"]
          /\ running' = [running EXCEPT ![t] = f]
    /\ UNCHANGED <<image_calls, preload>>

\* the get_image of a worker goes on; when it returns, what it returned is
\* the result of the future
FutureFollows(t) ==
    /\ running[t] # 0
    /\ IF ipc'[t] = "idle"
       THEN /\ futures' = [futures EXCEPT ![running[t]].state = "done",
                                          ![running[t]].result = iret'.path]
            /\ running' = [running EXCEPT ![t] = 0]
       ELSE UNCHANGED <<futures, running>>
    /\ UNCHANGED preload

\* a loop that counts a completion for every future that is done
preload_collect_counting_all(f) ==
    /\ preload.pc = "collecting"
    /\ f \in 1..Len(futures)
    /\ f \notin preload.collected
    /\ futures[f].state = "done"
    /\ LET url == futures[f].url
           sofar == IF url \in DOMAIN preload.results
                    THEN preload.results[url] ELSE TRUE
           completed == preload.completed + 1
       IN preload' = [preload EXCEPT
             !.results = MapPut(@, url, sofar /\ futures[f].result),
             !.collected = @ \cup {f},
             !.completed = completed,
             !.progress = Append(@, [completed |-> completed,
                                     total |-> preload.total_urls,
                                     url |-> url])]
    /\ UNCHANGED <<futures, running, cache_data, cache_order,
                   current_size_bytes, stats, files, imgVars, now>>

\* preload_images, lines 618-633: as_completed hands over a future that is
\* done; its result goes into results, and a detail future counts a
\* completion and calls progress_callback
preload_collect(f) ==
    /\ preload.pc = "collecting"
    /\ f \in 1..Len(futures)
    /\ f \notin preload.collected
    /\ futures[f].state = "done"
    /\ LET url == futures[f].url
           sofar == IF url \in DOMAIN preload.results
                    THEN preload.results[url] ELSE TRUE
           counts == futures[f].size_type = "detail"
           completed == preload.completed + (IF counts THEN 1 ELSE 0)
       IN preload' = [preload EXCEPT
             !.results = MapPut(@, url, sofar /\ futures[f].result),
             !.collected = @ \cup {f},
             !.completed = completed,
             !.progress = IF counts
                          THEN Append(@, [completed |-> completed,
                                          total |-> preload.total_urls,
                                          url |-> url])
                          ELSE @]
    /\ UNCHANGED <<futures, running, cache_data, cache_order,
                   current_size_bytes, stats, files, imgVars, now>>

\* preload_images, line 641: every future was handed over; return results
preload_return ==
    /\ preload.pc = "collecting"
    /\ preload.collected = 1..Len(futures)
    /\ preload' = [preload EXCEPT !.pc = "returned"]
    /\ UNCHANGED <<futures, running, cache_data, cache_order,
                   current_size_bytes, stats, files, imgVars, now>>

\* a day passes
DayPasses ==
    /\ now < HoursPerDay * MaxDays
    /\ now' = now + HoursPerDay
    /\ UNCHANGED <<cache_data, cache_order, current_size_bytes, stats, files,
                   imgVars>>

(***************************************************************************)
(* ImageCache.get_placeholder_path (src/image_cache.py:643-692)            *)
(***************************************************************************)
\* placeholder_dir / f"placeholder_{size_type}.webp"
PlaceholderPath(size_type) == [dir |-> "placeholders", name |-> size_type]

\* img.save writes the file, or raises before it opened the file, or raises
\* after it opened it and leaves what it wrote
SaveOutcomes == {"saved", "failed", "failed_partial"}

PlaceholderInit ==
    placeholder = [files |-> {},
                   writes |-> [s \in SizeTypes |-> 0],
                   pc |-> [t \in Threads |-> "idle"],
                   size_type |-> [t \in Threads |-> "none"],
                   calls |-> 0,
                   rets |-> <<>>]

\* line 692: return str(placeholder_path)
PlaceholderReturn(p, t, size_type) ==
    [p EXCEPT !.pc[t] = "idle", !.size_type[t] = "none",
              !.rets = Append(@, [size_type |-> size_type,
                                  path |-> PlaceholderPath(size_type)])]

\* a get_placeholder_path that draws the placeholder on every call
get_placeholder_path_redrawing(t, size_type) ==
    /\ placeholder.pc[t] = "idle"
    /\ placeholder.calls < MaxPlaceholderCalls
    /\ placeholder' = [placeholder EXCEPT !.calls = @ + 1, !.pc[t] = "create",
                                          !.size_type[t] = size_type]

\* lines 654-660: the path, and the test whether the file is there; with the
\* file there the call returns at once
get_placeholder_path(t, size_type) ==
    /\ placeholder.pc[t] = "idle"
    /\ placeholder.calls < MaxPlaceholderCalls
    /\ LET p == [placeholder EXCEPT !.calls = @ + 1]
       IN IF PlaceholderPath(size_type) \in placeholder.files
          THEN placeholder' = PlaceholderReturn(p, t, size_type)
          ELSE placeholder' = [p EXCEPT !.pc[t] = "create",
                                        !.size_type[t] = size_type]

\* lines 661-692: draw the image and save it; the handler logs a failure and
\* the call returns the path all the same
placeholder_create(t, outcome) ==
    /\ placeholder.pc[t] = "create"
    /\ LET size_type == placeholder.size_type[t]
           p == IF outcome = "failed" THEN placeholder
                ELSE [placeholder EXCEPT
                         !.files = @ \cup {PlaceholderPath(size_type)},
                         !.writes[size_type] = @ + 1]
       IN placeholder' = PlaceholderReturn(p, t, size_type)

(***************************************************************************)
(* RandomAlgorithm.__init__ on a used store (src/random_algorithm.py:247)  *)
(***************************************************************************)
\* datetime('now', '-7 days')
history_days == 7

NoStart == [n |-> 0, error |-> FALSE, loads |-> 0]

StartInit == started = NoStart

Min(a, b) == IF a <= b THEN a ELSE b

\* rows of selection_history JOIN albums newer than seven days (lines 327-331)
JoinedRows ==
    {i \in 1..Len(selection_history) :
        /\ selection_history[i].album_id \in DOMAIN albums
        /\ selection_history[i].selected_at > now - history_days * HoursPerDay}

\* ORDER BY sh.selected_at DESC LIMIT max_history_size: the rows in the order
\* the cursor hands them over; rows of the same time come in any order
LoadedRows ==
    {q \in [1..Min(max_history_size, Cardinality(JoinedRows)) -> JoinedRows] :
        /\ \A i \in DOMAIN q, j \in DOMAIN q : q[i] = q[j] => i = j
        /\ \A i \in DOMAIN q, j \in DOMAIN q :
              i < j => selection_history[q[i]].selected_at
                          >= selection_history[q[j]].selected_at
        /\ \A i \in DOMAIN q, j \in JoinedRows \ {q[k] : k \in DOMAIN q} :
              selection_history[j].selected_at <= selection_history[q[i]].selected_at}

\* album_data of lines 337-343: the columns of the albums row as it is now
AlbumData(row) ==
    [id |-> row.album_id, artist |-> albums[row.album_id].artist,
     genres |-> albums[row.album_id].genres,
     rating |-> albums[row.album_id].rating,
     play_count |-> albums[row.album_id].play_count]

EmptyHistory == [selections |-> <<>>, genre_history |-> <<>>,
                 artist_history |-> <<>>]

\* lines 336-344: add_selection for each row, in the order of the cursor
RECURSIVE LoadHistory(_)
LoadHistory(q) ==
    IF q = <<>> THEN EmptyHistory
    ELSE add_selection(LoadHistory(SubSeq(q, 1, Len(q) - 1)),
                       AlbumData(selection_history[q[Len(q)]]))

\* _load_selection_history that seeds nothing
load_nothing(t, q, load_ok) ==
    /\ \A u \in Threads : spc[u] = "idle"
    /\ cache_lock = NoThread
    /\ started.n < MaxRestarts
    /\ history' = EmptyHistory
    /\ metrics' = [total_selections |-> 0, user_satisfaction_score |-> 0]
    /\ last_cache_refresh' = now
    /\ cache_lock' = t
    /\ spc' = [spc EXCEPT ![t] = "refresh"]
    /\ sarg' = [sarg EXCEPT ![t] = [NoSelArg EXCEPT !.op = "init"]]
    /\ started' = [started EXCEPT !.n = @ + 1, !.error = ~load_ok]
    /\ UNCHANGED <<albums, intelligent_cache, txn, selection_history, sret,
                   committed, refreshed_at, month, start_hour, now>>

\* lines 248-258 in a new process: fresh history, metrics and lock, then
\* _load_selection_history; load_ok = FALSE is a store that raises, which
\* the handler of line 346 logs.  The constructing thread goes on to the
\* refresh of line 259; no other thread has the engine before it returns,
\* which the model renders by cache_lock.
__init__(t, q, load_ok) ==
    /\ \A u \in Threads : spc[u] = "idle"
    /\ cache_lock = NoThread
    /\ started.n < MaxRestarts
    /\ history' = IF load_ok THEN LoadHistory(q) ELSE EmptyHistory
    /\ metrics' = [total_selections |-> 0, user_satisfaction_score |-> 0]
    /\ last_cache_refresh' = now
    /\ cache_lock' = t
    /\ spc' = [spc EXCEPT ![t] = "refresh"]
    /\ sarg' = [sarg EXCEPT ![t] = [NoSelArg EXCEPT !.op = "init"]]
    /\ started' = [started EXCEPT !.n = @ + 1, !.error = ~load_ok]
    /\ UNCHANGED <<albums, intelligent_cache, txn, selection_history, sret,
                   committed, refreshed_at, month, start_hour, now>>

\* a week passes
WeekPasses ==
    /\ now < history_days * HoursPerDay * MaxWeeks
    /\ now' = now + history_days * HoursPerDay
    /\ UNCHANGED <<selVars, startVars>>

(***************************************************************************)
(* get_algorithm_instance (src/random_algorithm.py:725-737)                *)
(***************************************************************************)
DbPaths == {"db1", "db2"}

\* _algorithm_instance = None
NoInstance == [serial |-> 0, db_path |-> "none"]

NoInstanceArg == [db_path |-> "none", given |-> FALSE]

\* serial numbers the RandomAlgorithm objects in the order they are made;
\* rets holds, for every call that has ended, the object it returned
\* (serial 0: the constructor raised)
InstanceInit ==
    singleton = [instance |-> NoInstance,
                 lock |-> NoThread,
                 pc |-> [t \in Threads |-> "idle"],
                 arg |-> [t \in Threads |-> NoInstanceArg],
                 calls |-> 0,
                 constructed |-> 0,
                 rets |-> <<>>]

\* the call: given says whether a config is passed
get_algorithm_instance(t, db_path, given) ==
    /\ singleton.pc[t] = "idle"
    /\ singleton.calls < MaxInstanceCalls
    /\ given => config.built
    /\ singleton' = [singleton EXCEPT
                        !.pc[t] = "wait",
                        !.arg[t] = [db_path |-> db_path, given |-> given],
                        !.calls = @ + 1]

\* return _algorithm_instance, leaving the with block
InstanceReturn(sg, t, obj) ==
    [sg EXCEPT !.lock = NoThread,
               !.pc[t] = "idle",
               !.arg[t] = NoInstanceArg,
               !.rets = Append(@, [thread |-> t, serial |-> obj.serial,
                                   db_path |-> sg.arg[t].db_path,
                                   given |-> sg.arg[t].given])]

\* a get_algorithm_instance that constructs without looking at the global
instance_acquire_without_check(t) ==
    /\ singleton.pc[t] = "wait"
    /\ singleton.lock = NoThread
    /\ singleton' = [singleton EXCEPT !.lock = t, !.pc[t] = "construct"]

\* lines 734-737: with _algorithm_lock, an instance that exists is returned
instance_acquire(t) ==
    /\ singleton.pc[t] = "wait"
    /\ singleton.lock = NoThread
    /\ singleton' = IF singleton.instance # NoInstance
                    THEN InstanceReturn(singleton, t, singleton.instance)
                    ELSE [singleton EXCEPT !.lock = t, !.pc[t] = "construct"]

\* line 736: RandomAlgorithm(db_path, config).  ok = FALSE is a store on
\* which _initialize_database_extensions raises: the exception leaves the
\* with block and the global stays None.  Otherwise the constructor sets the
\* configuration, loads the history and starts its first refresh.
instance_construct(t, q, load_ok, ok) ==
    /\ singleton.pc[t] = "construct"
    /\ IF ok
       THEN /\ __init__(t, q, load_ok)
            /\ RandomAlgorithm(singleton.arg[t].given)
            /\ singleton' = [singleton EXCEPT !.pc[t] = "init"]
       ELSE /\ singleton' = InstanceReturn(singleton, t, NoInstance)
            /\ UNCHANGED <<selVars, now, cfgVars, startVars>>

\* the constructor returns: the object is bound to the global and returned
instance_bind(t) ==
    /\ singleton.pc[t] = "init"
    /\ spc[t] = "idle"
    /\ LET obj == [serial |-> singleton.constructed + 1,
                   db_path |-> singleton.arg[t].db_path]
       IN singleton' = [InstanceReturn(singleton, t, obj) EXCEPT
                           !.instance = obj,
                           !.constructed = @ + 1]

(***************************************************************************)
(* The play-recording path (src/app.py:572-577)                            *)
(***************************************************************************)
\* how often the album page was opened: the play counts above those of the
\* rows as the collection sync inserted them
RECURSIVE SyncedPlayCount(_)
SyncedPlayCount(ids) ==
    IF ids = {} THEN 0
    ELSE LET a == CHOOSE x \in ids : TRUE
         IN AlbumRow(a).play_count + SyncedPlayCount(ids \ {a})

Plays == SumPlayCount(DOMAIN albums) - SyncedPlayCount(DOMAIN albums)

\* album_detail: UPDATE albums SET play_count = play_count + 1,
\* last_played = now WHERE id = album_id, committed at once
album_detail(album_id) ==
    /\ album_id \in DOMAIN albums
    /\ Plays < MaxPlays
    /\ albums' = [albums EXCEPT ![album_id].play_count = @ + 1,
                                ![album_id].days_played = 0]
    /\ UNCHANGED <<intelligent_cache, txn, selection_history, history,
                   last_cache_refresh, cache_lock, metrics, spc, sarg, sret,
                   committed, refreshed_at, month, start_hour, now>>

(***************************************************************************)
(* The environment of the engine                                           *)
(***************************************************************************)
\* the collection sync inserts the next album (AUTOINCREMENT id)
add_album ==
    /\ Cardinality(DOMAIN albums) < MaxAlbums
    /\ LET id == Cardinality(DOMAIN albums) + 1
       IN albums' = MapPut(albums, id, AlbumRow(id))
    /\ UNCHANGED <<intelligent_cache, txn, selection_history, history,
                   last_cache_refresh, cache_lock, metrics, spc, sarg, sret,
                   committed, refreshed_at, month, start_hour, now>>

\* an hour passes
Tick ==
    /\ now < MaxNow
    /\ now' = now + 1
    /\ UNCHANGED selVars

\* the engine built on an empty store: __init__ finds no albums to weigh
SelInit ==
    /\ albums = EmptyMap
    /\ intelligent_cache = <<>>
    /\ txn = NoTxn
    /\ selection_history = <<>>
    /\ history = [selections |-> <<>>, genre_history |-> <<>>,
                  artist_history |-> <<>>]
    /\ last_cache_refresh = 0
    /\ cache_lock = NoThread
    /\ metrics = [total_selections |-> 0, user_satisfaction_score |-> 0]
    /\ spc = [t \in Threads |-> "idle"]
    /\ sarg = [t \in Threads |-> NoSelArg]
    /\ sret = NoResult
    /\ committed = <<>>
    /\ refreshed_at = NoValue
    /\ fret = NoFeedbackCall

(***************************************************************************)
(* Specifications                                                          *)
(***************************************************************************)
InitLRU ==
    /\ LRUInit
    /\ SelInit
    /\ CfgInit
    /\ ImgInit
    /\ PreInit
    /\ PlaceholderInit
    /\ StartInit
    /\ InstanceInit
    /\ TallyInit
    /\ now = 0
    /\ month = 7
    /\ start_hour = 5

NextLRU ==
    \/ \E t \in Threads, k \in Keys : get(t, k) /\ UNCHANGED LRUFrame
    \/ \E t \in Threads, k \in Keys, s \in Sizes :
          put_begin(t, k, NewEntry(s)) /\ UNCHANGED LRUFrame
    \/ \E t \in Threads : _evict_lru(t) /\ UNCHANGED LRUFrame
    \/ \E t \in Threads : put_finish(t) /\ UNCHANGED LRUFrame
    \/ \E t \in Threads, k \in Keys : remove(t, k) /\ UNCHANGED LRUFrame
    \/ \E t \in Threads : clear(t) /\ UNCHANGED LRUFrame

SpecLRU == InitLRU /\ [][NextLRU]_vars

InitSel ==
    /\ LRUInit
    /\ SelInit
    /\ CfgInit
    /\ ImgInit
    /\ PreInit
    /\ PlaceholderInit
    /\ StartInit
    /\ InstanceInit
    /\ TallyInit
    /\ now = 0
    /\ month \in Months
    /\ start_hour \in StartHours

NextSel ==
    \/ \E t \in Threads, sid \in Sessions : select_call(t, sid) /\ UNCHANGED SelFrame
    \/ \E t \in Threads, over_an_hour \in BOOLEAN :
          select_acquire(t, over_an_hour) /\ UNCHANGED SelFrame
    \/ \E t \in Threads, ok \in BOOLEAN : refresh_read(t, ok) /\ UNCHANGED SelFrame
    \/ \E t \in Threads, ok \in BOOLEAN : refresh_delete(t, ok) /\ UNCHANGED SelFrame
    \/ \E t \in Threads, ok \in BOOLEAN : refresh_insert(t, ok) /\ UNCHANGED SelFrame
    \/ \E t \in Threads, ok \in BOOLEAN : refresh_commit(t, ok) /\ UNCHANGED SelFrame
    \/ \E t \in Threads : refresh_except(t) /\ UNCHANGED SelFrame
    \/ \E t \in Threads, ok \in BOOLEAN, log_ok \in BOOLEAN :
          select_draw(t, ok, log_ok) /\ UNCHANGED SelFrame
    \/ \E t \in Threads : trigger_call(t) /\ UNCHANGED SelFrame
    \/ \E t \in Threads : trigger_acquire(t) /\ UNCHANGED SelFrame
    \/ add_album /\ UNCHANGED SelFrame
    \/ Tick /\ UNCHANGED SelFrame

SpecSel == InitSel /\ [][NextSel]_vars

\* configurations and engines under construction
InitCfg == InitSel

NextCfg ==
    \/ \E r \in ConfigWeights, p \in ConfigWeights, c \in ConfigWeights,
          g \in ConfigWeights :
          AlgorithmConfig(r, p, c, g) /\ UNCHANGED CfgFrame
    \/ \E given \in BOOLEAN : RandomAlgorithm(given) /\ UNCHANGED CfgFrame

SpecCfg == InitCfg /\ [][NextCfg]_vars

\* the image cache
InitImg == InitSel

NextImg ==
    \/ \E t \in Threads, url \in Urls, size_type \in SizeTypes :
          get_image(t, url, size_type) /\ UNCHANGED ImgFrame
    \/ \E t \in Threads, ok \in BOOLEAN : get_image_hit(t, ok) /\ UNCHANGED ImgFrame
    \/ \E t \in Threads, outcome \in FetchOutcomes, size \in ImageSizes :
          process_image(t, outcome, size) /\ UNCHANGED ImgFrame
    \/ \E t \in Threads : process_put(t) /\ UNCHANGED ImgFrame
    \/ \E t \in Threads, ok \in BOOLEAN : process_finish(t, ok) /\ UNCHANGED ImgFrame

SpecImg == InitImg /\ [][NextImg]_vars

\* the image cache with its maintenance
InitClean == InitSel

NextClean ==
    \/ NextImg
    \/ \E max_age_days \in {0, 1}, ok \in BOOLEAN,
          done \in SUBSET DOMAIN image_cache :
          cleanup_cache(max_age_days, ok, done) /\ UNCHANGED ImgFrame
    \/ DayPasses /\ UNCHANGED ImgFrame

SpecClean == InitClean /\ [][NextClean]_vars

\* preload_images and the get_image calls of its futures
UrlLists == UNION {[1..n -> Urls] : n \in 0..MaxUrls}

InitPre == InitSel

NextPre ==
    \/ \E urls \in UrlLists : preload_images(urls) /\ UNCHANGED FutureFrame
    \/ \E t \in Threads : run_future(t) /\ UNCHANGED FutureFrame
    \/ \E t \in Threads :
          get_image_hit(t, TRUE) /\ FutureFollows(t) /\ UNCHANGED FutureFrame
    \/ \E t \in Threads, outcome \in {"ok", "timeout"}, size \in ImageSizes :
          process_image(t, outcome, size) /\ FutureFollows(t) /\ UNCHANGED FutureFrame
    \/ \E t \in Threads :
          process_put(t) /\ FutureFollows(t) /\ UNCHANGED FutureFrame
    \/ \E t \in Threads :
          process_finish(t, TRUE) /\ FutureFollows(t) /\ UNCHANGED FutureFrame
    \/ \E f \in 1..(2 * MaxUrls) : preload_collect(f) /\ UNCHANGED FutureFrame
    \/ preload_return /\ UNCHANGED FutureFrame

SpecPre == InitPre /\ [][NextPre]_vars

\* the engine and the album page
InitPlay == InitSel

NextPlay ==
    \/ NextSel
    \/ \E a \in 1..MaxAlbums : album_detail(a) /\ UNCHANGED SelFrame

SpecPlay == InitPlay /\ [][NextPlay]_vars

\* the engine together with its callers
InitApp == InitSel

NextApp ==
    \/ NextSel
    \/ \E a \in 1..MaxAlbums, f \in Feedbacks, sid \in FeedbackSessions,
          ok \in BOOLEAN :
          record_user_feedback(a, f, sid, ok) /\ UNCHANGED FeedbackFrame

SpecApp == InitApp /\ [][NextApp]_vars

\* the engine with the values of RANDOM() spelled out
InitDraw == InitSel

NextDraw ==
    \/ \E t \in Threads, sid \in Sessions : select_call(t, sid) /\ UNCHANGED SelFrame
    \/ \E t \in Threads, over_an_hour \in BOOLEAN :
          select_acquire(t, over_an_hour) /\ UNCHANGED SelFrame
    \/ \E t \in Threads, ok \in BOOLEAN : refresh_read(t, ok) /\ UNCHANGED SelFrame
    \/ \E t \in Threads, ok \in BOOLEAN : refresh_delete(t, ok) /\ UNCHANGED SelFrame
    \/ \E t \in Threads, ok \in BOOLEAN : refresh_insert(t, ok) /\ UNCHANGED SelFrame
    \/ \E t \in Threads, ok \in BOOLEAN : refresh_commit(t, ok) /\ UNCHANGED SelFrame
    \/ \E t \in Threads : refresh_except(t) /\ UNCHANGED SelFrame
    \/ \E t \in Threads, ok \in BOOLEAN, log_ok \in BOOLEAN :
          \E r \in RandomValues(t) :
             select_draw_random(t, r, ok, log_ok) /\ UNCHANGED SelFrame
    \/ \E t \in Threads : trigger_call(t) /\ UNCHANGED SelFrame
    \/ \E t \in Threads : trigger_acquire(t) /\ UNCHANGED SelFrame
    \/ add_album /\ UNCHANGED SelFrame
    \/ Tick /\ UNCHANGED SelFrame

SpecDraw == InitDraw /\ [][NextDraw]_vars

\* the placeholders
InitPlaceholder == InitSel

NextPlaceholder ==
    \/ \E t \in Threads, size_type \in SizeTypes :
          get_placeholder_path(t, size_type) /\ UNCHANGED PlaceholderFrame
    \/ \E t \in Threads, outcome \in SaveOutcomes :
          placeholder_create(t, outcome) /\ UNCHANGED PlaceholderFrame

SpecPlaceholder == InitPlaceholder /\ [][NextPlaceholder]_vars

\* the engine, stopped and constructed again on its store; select_random_album
\* is the only caller, and the store fails on no statement but those of the
\* load and of the log
InitStart == InitSel

NextStart ==
    \/ \E t \in Threads, sid \in Sessions : select_call(t, sid) /\ UNCHANGED SelFrame
    \/ \E t \in Threads, over_an_hour \in BOOLEAN :
          select_acquire(t, over_an_hour) /\ UNCHANGED SelFrame
    \/ \E t \in Threads : refresh_read(t, TRUE) /\ UNCHANGED SelFrame
    \/ \E t \in Threads : refresh_delete(t, TRUE) /\ UNCHANGED SelFrame
    \/ \E t \in Threads : refresh_insert(t, TRUE) /\ UNCHANGED SelFrame
    \/ \E t \in Threads : refresh_commit(t, TRUE) /\ UNCHANGED SelFrame
    \/ \E t \in Threads, log_ok \in BOOLEAN :
          select_draw(t, TRUE, log_ok) /\ UNCHANGED SelFrame
    \/ add_album /\ UNCHANGED SelFrame
    \/ Tick /\ UNCHANGED SelFrame
    \/ \E t \in Threads, q \in LoadedRows, load_ok \in BOOLEAN :
          __init__(t, q, load_ok) /\ UNCHANGED StartFrame
    \/ WeekPasses /\ UNCHANGED StartFrame

SpecStart == InitStart /\ [][NextStart]_vars

\* the image cache, stopped and constructed again on its directory and table
InitLoad == InitSel

NextLoad ==
    \/ NextImg
    \/ \E q \in RowsByLastAccessed, ok \in BOOLEAN :
          _load_cache_from_database(q, ok) /\ UNCHANGED LoadFrame
    \/ DayPasses /\ UNCHANGED ImgFrame

SpecLoad == InitLoad /\ [][NextLoad]_vars

\* SelectionHistory alone
InitHistory == InitSel

NextHistory ==
    \E album \in HistoryAlbums : add_selection_call(album) /\ UNCHANGED SelFrame

SpecHistory == InitHistory /\ [][NextHistory]_vars

\* the engine on a collection the sync has filled since it was constructed;
\* its select_random_album calls find the cache less than an hour old, and
\* the refreshes are those of trigger_cache_refresh
InitServe ==
    /\ LRUInit
    /\ CfgInit
    /\ ImgInit
    /\ PreInit
    /\ PlaceholderInit
    /\ StartInit
    /\ InstanceInit
    /\ TallyInit
    /\ now = 0
    /\ month \in Months
    /\ start_hour \in StartHours
    /\ albums = [id \in 1..MaxSynced |-> AlbumRow(id)]
    /\ intelligent_cache = <<>>
    /\ txn = NoTxn
    /\ selection_history = <<>>
    /\ history = EmptyHistory
    /\ last_cache_refresh = 0
    /\ cache_lock = NoThread
    /\ metrics = [total_selections |-> 0, user_satisfaction_score |-> 0]
    /\ spc = [t \in Threads |-> "idle"]
    /\ sarg = [t \in Threads |-> NoSelArg]
    /\ sret = NoResult
    /\ committed = <<>>
    /\ refreshed_at = NoValue
    /\ fret = NoFeedbackCall

NextServe ==
    \/ \E t \in Threads, sid \in Sessions : select_call(t, sid) /\ UNCHANGED SelFrame
    \/ \E t \in Threads : select_acquire(t, FALSE) /\ UNCHANGED SelFrame
    \/ \E t \in Threads : refresh_read(t, TRUE) /\ UNCHANGED SelFrame
    \/ \E t \in Threads : refresh_delete(t, TRUE) /\ UNCHANGED SelFrame
    \/ \E t \in Threads : refresh_insert(t, TRUE) /\ UNCHANGED SelFrame
    \/ \E t \in Threads : refresh_commit(t, TRUE) /\ UNCHANGED SelFrame
    \/ \E t \in Threads, log_ok \in BOOLEAN :
          select_draw(t, TRUE, log_ok) /\ UNCHANGED SelFrame
    \/ \E t \in Threads : trigger_call(t) /\ UNCHANGED SelFrame
    \/ \E t \in Threads : trigger_acquire(t) /\ UNCHANGED SelFrame
    \/ Tick /\ UNCHANGED SelFrame

SpecServe == InitServe /\ [][NextServe]_vars

\* the engine over hours and restarts, on a store that may fail the read of
\* a refresh
InitHourly == InitSel

NextHourly ==
    \/ \E t \in Threads, sid \in Sessions : select_call(t, sid) /\ UNCHANGED SelFrame
    \/ \E t \in Threads, over_an_hour \in BOOLEAN :
          select_acquire(t, over_an_hour) /\ UNCHANGED SelFrame
    \/ \E t \in Threads, ok \in BOOLEAN : refresh_read(t, ok) /\ UNCHANGED SelFrame
    \/ \E t \in Threads : refresh_delete(t, TRUE) /\ UNCHANGED SelFrame
    \/ \E t \in Threads : refresh_insert(t, TRUE) /\ UNCHANGED SelFrame
    \/ \E t \in Threads : refresh_commit(t, TRUE) /\ UNCHANGED SelFrame
    \/ \E t \in Threads : refresh_except(t) /\ UNCHANGED SelFrame
    \/ \E t \in Threads : select_draw(t, TRUE, TRUE) /\ UNCHANGED SelFrame
    \/ add_album /\ UNCHANGED SelFrame
    \/ Tick /\ UNCHANGED SelFrame
    \/ \E t \in Threads, q \in LoadedRows :
          __init__(t, q, TRUE) /\ UNCHANGED StartFrame
    \/ WeekPasses /\ UNCHANGED StartFrame

SpecHourly == InitHourly /\ [][NextHourly]_vars

\* the module-level engine and its callers
InitInstance == InitSel

NextInstance ==
    \/ \E t \in Threads, db_path \in DbPaths, given \in BOOLEAN :
          get_algorithm_instance(t, db_path, given) /\ UNCHANGED InstanceFrame
    \/ \E t \in Threads : instance_acquire(t) /\ UNCHANGED InstanceFrame
    \/ \E t \in Threads, q \in LoadedRows, load_ok \in BOOLEAN, ok \in BOOLEAN :
          instance_construct(t, q, load_ok, ok)
             /\ UNCHANGED <<lruVars, fbVars, imgVars, preVars, plcVars,
                            tallyVars>>
    \/ \E t \in Threads : instance_bind(t) /\ UNCHANGED InstanceFrame
    \/ \E t \in Threads, ok \in BOOLEAN : refresh_read(t, ok) /\ UNCHANGED SelFrame
    \/ \E t \in Threads : refresh_delete(t, TRUE) /\ UNCHANGED SelFrame
    \/ \E t \in Threads : refresh_insert(t, TRUE) /\ UNCHANGED SelFrame
    \/ \E t \in Threads : refresh_commit(t, TRUE) /\ UNCHANGED SelFrame
    \/ \E t \in Threads : refresh_except(t) /\ UNCHANGED SelFrame
    \/ add_album /\ UNCHANGED SelFrame
    \/ \E r \in ConfigWeights : AlgorithmConfig(r, r, r, r) /\ UNCHANGED CfgFrame

SpecInstance == InitInstance /\ [][NextInstance]_vars

\* callers of the module-level functions: the engine is reached through
\* get_algorithm_instance, and a thread makes one call at a time
EngineBound(t) ==
    /\ singleton.instance # NoInstance
    /\ singleton.pc[t] = "idle"

\* the steps of thread t that wait for a lock
LockStep(t) ==
    \/ instance_acquire(t) /\ UNCHANGED InstanceFrame
    \/ \E over_an_hour \in BOOLEAN :
          select_acquire(t, over_an_hour) /\ UNCHANGED SelFrame
    \/ trigger_acquire(t) /\ UNCHANGED SelFrame

\* the steps of thread t inside a call that wait for nothing; the history
\* load of the constructor succeeds and the statements of a refresh between
\* its read and its commit do not raise
RunStep(t) ==
    \/ \E q \in LoadedRows, ok \in BOOLEAN :
          instance_construct(t, q, TRUE, ok)
             /\ UNCHANGED <<lruVars, fbVars, imgVars, preVars, plcVars,
                            tallyVars>>
    \/ instance_bind(t) /\ UNCHANGED InstanceFrame
    \/ \E ok \in BOOLEAN : refresh_read(t, ok) /\ UNCHANGED SelFrame
    \/ refresh_delete(t, TRUE) /\ UNCHANGED SelFrame
    \/ refresh_insert(t, TRUE) /\ UNCHANGED SelFrame
    \/ \E ok \in BOOLEAN : refresh_commit(t, ok) /\ UNCHANGED SelFrame
    \/ refresh_except(t) /\ UNCHANGED SelFrame
    \/ \E ok \in BOOLEAN : select_draw(t, ok, TRUE) /\ UNCHANGED SelFrame

\* every thread is outside its calls and the engine exists
AtRest == \A t \in Threads : EngineBound(t) /\ spc[t] = "idle"

\* one album is synced before the first engine is constructed
InitLive ==
    /\ LRUInit
    /\ CfgInit
    /\ ImgInit
    /\ PreInit
    /\ PlaceholderInit
    /\ StartInit
    /\ InstanceInit
    /\ TallyInit
    /\ now = 0
    /\ month \in Months
    /\ start_hour \in StartHours
    /\ albums = [id \in 1..1 |-> AlbumRow(id)]
    /\ intelligent_cache = <<>>
    /\ txn = NoTxn
    /\ selection_history = <<>>
    /\ history = EmptyHistory
    /\ last_cache_refresh = 0
    /\ cache_lock = NoThread
    /\ metrics = [total_selections |-> 0, user_satisfaction_score |-> 0]
    /\ spc = [t \in Threads |-> "idle"]
    /\ sarg = [t \in Threads |-> NoSelArg]
    /\ sret = NoResult
    /\ committed = <<>>
    /\ refreshed_at = NoValue
    /\ fret = NoFeedbackCall

\* two threads ask for the engine, then select and refresh through it; the
\* hour that makes a selection refresh passes before the first selection
NextLive ==
    \/ \E t \in Threads :
          /\ spc[t] = "idle"
          /\ singleton.calls < MaxLiveInstanceCalls
          /\ get_algorithm_instance(t, "db1", FALSE)
          /\ UNCHANGED InstanceFrame
    \/ \E t \in Threads, sid \in Sessions :
          EngineBound(t) /\ select_call(t, sid) /\ UNCHANGED SelFrame
    \/ \E t \in Threads :
          EngineBound(t) /\ trigger_call(t) /\ UNCHANGED SelFrame
    \/ \E t \in Threads : LockStep(t)
    \/ \E t \in Threads : RunStep(t)
    \/ AtRest /\ SelectCalls = 0 /\ Tick /\ UNCHANGED SelFrame

\* a thread inside a call goes on running, and a thread that waits for a
\* lock that is released again and again gets it
Fairness ==
    \A t \in Threads : WF_vars(RunStep(t)) /\ SF_vars(LockStep(t))

SpecLive == InitLive /\ [][NextLive]_vars /\ Fairness

\* ---- get_image with the holder of LRUCache.lock followed
\* (src/image_cache.py:163-165, 183-185, 553-578): `with self.lock` of
\* LRUCache.get and LRUCache.put is entered in a step of its own; the body and
\* the release are the step that follows

\* a get_image that holds the lock of its LRUCache.get until its put is done
lru_release_after_put(t) ==
    /\ lock = t
    /\ lock' = IF ipc'[t] = "fetch" \/ ipc'[t] = "put" THEN t ELSE NoThread

\* the with block of LRUCache.get or LRUCache.put is left
lru_release(t) ==
    /\ lock = t
    /\ lock' = NoThread

\* get_image reaches lru_cache.get (line 568), or _process_and_cache_image
\* reaches lru_cache.put (line 531), and the lock is free
lru_acquire(t) ==
    /\ ipc[t] \in {"idle", "put"}
    /\ ipc[t] = "idle" => image_calls < MaxImageCalls
    /\ lock = NoThread
    /\ lock' = t
    /\ UNCHANGED <<cache_data, cache_order, current_size_bytes, stats, files,
                   now, imgVars>>

InitShare == InitSel

NextShare ==
    \/ \E t \in Threads : lru_acquire(t) /\ UNCHANGED ShareFrame
    \/ \E t \in Threads, url \in Urls \ {""}, size_type \in SizeTypes :
          /\ get_image(t, url, size_type)
          /\ lru_release(t)
          /\ UNCHANGED ShareFrame
    \/ \E t \in Threads, ok \in BOOLEAN :
          get_image_hit(t, ok) /\ UNCHANGED <<lock, ShareFrame>>
    \/ \E t \in Threads, outcome \in FetchOutcomes, size \in ImageSizes :
          process_image(t, outcome, size) /\ UNCHANGED <<lock, ShareFrame>>
    \/ \E t \in Threads :
          process_put(t) /\ lru_release(t) /\ UNCHANGED ShareFrame
    \/ \E t \in Threads, ok \in BOOLEAN :
          process_finish(t, ok) /\ UNCHANGED <<lock, ShareFrame>>

SpecShare == InitShare /\ [][NextShare]_vars

\* ---- the refresh of a collection of three albums that differ in rating and
\* genre only, at any month and hour

AllMonths == 1..12
AllHours == 0..23

\* what the three albums have in common: play count, days since they were
\* added and days since they were played (NoValue: never)
SharedAttributes ==
    [play_count : {0, 2}, days_added : {10, 3650}, days_played : {NoValue, 0, 30}]

ScenarioAlbum(rating, genre, shared) ==
    [artist |-> "X", genres |-> <<genre>>, rating |-> rating,
     play_count |-> shared.play_count, days_added |-> shared.days_added,
     days_played |-> shared.days_played]

\* A is album 1, B album 2 and C album 3
ScenarioAlbums(shared) ==
    <<ScenarioAlbum(5, "Rock", shared), ScenarioAlbum(1, "Jazz", shared),
      ScenarioAlbum(3, "Rock", shared)>>

InitScenario ==
    /\ LRUInit
    /\ CfgInit
    /\ ImgInit
    /\ PreInit
    /\ PlaceholderInit
    /\ StartInit
    /\ InstanceInit
    /\ TallyInit
    /\ now = 0
    /\ month \in AllMonths
    /\ start_hour \in AllHours
    /\ \E shared \in SharedAttributes : albums = ScenarioAlbums(shared)
    /\ intelligent_cache = <<>>
    /\ txn = NoTxn
    /\ selection_history = <<>>
    /\ history = EmptyHistory
    /\ last_cache_refresh = 0
    /\ cache_lock = NoThread
    /\ metrics = [total_selections |-> 0, user_satisfaction_score |-> 0]
    /\ spc = [t \in Threads |-> "idle"]
    /\ sarg = [t \in Threads |-> NoSelArg]
    /\ sret = NoResult
    /\ committed = <<>>
    /\ refreshed_at = NoValue
    /\ fret = NoFeedbackCall

NextScenario ==
    \/ \E t \in Threads : trigger_call(t) /\ UNCHANGED SelFrame
    \/ \E t \in Threads : trigger_acquire(t) /\ UNCHANGED SelFrame
    \/ \E t \in Threads : refresh_read(t, TRUE) /\ UNCHANGED SelFrame
    \/ \E t \in Threads : refresh_delete(t, TRUE) /\ UNCHANGED SelFrame
    \/ \E t \in Threads : refresh_insert(t, TRUE) /\ UNCHANGED SelFrame
    \/ \E t \in Threads : refresh_commit(t, TRUE) /\ UNCHANGED SelFrame
    \/ Tick /\ UNCHANGED SelFrame

SpecScenario == InitScenario /\ [][NextScenario]_vars

\* ---- calculate_rating_weight alone, for a WeightCalculator of any weight

InitRating ==
    /\ LRUInit
    /\ SelInit
    /\ ImgInit
    /\ PreInit
    /\ PlaceholderInit
    /\ StartInit
    /\ InstanceInit
    /\ TallyInit
    /\ now = 0
    /\ month \in Months
    /\ start_hour \in StartHours
    /\ config = NoConfig
    /\ engine_config = NoConfig
    /\ \E weight \in RatingWeights : rated = [NoRated EXCEPT !.weight = weight]

NextRating ==
    \E rating \in Ratings : rate(rating) /\ UNCHANGED CfgFrame

SpecRating == InitRating /\ [][NextRating]_vars

\* ---- select_random_album with its failure path in steps, on a collection
\* of one album

InitTally == InitLive

NextTally ==
    \/ \E t \in Threads, sid \in Sessions :
          counted_call(t, sid) /\ UNCHANGED TallyFrame
    \/ \E t \in Threads, over_an_hour \in BOOLEAN :
          select_acquire(t, over_an_hour) /\ UNCHANGED SelFrame
    \/ \E t \in Threads : refresh_read(t, TRUE) /\ UNCHANGED SelFrame
    \/ \E t \in Threads : refresh_delete(t, TRUE) /\ UNCHANGED SelFrame
    \/ \E t \in Threads : refresh_insert(t, TRUE) /\ UNCHANGED SelFrame
    \/ \E t \in Threads : refresh_commit(t, TRUE) /\ UNCHANGED SelFrame
    \/ \E t \in Threads, log_ok \in BOOLEAN :
          counted_draw(t, log_ok) /\ UNCHANGED TallyFrame
    \/ \E t \in Threads : select_raise(t) /\ UNCHANGED TallyFrame
    \/ \E t \in Threads : update_metrics_read(t) /\ UNCHANGED TallyFrame
    \/ \E t \in Threads : update_metrics_write(t) /\ UNCHANGED TallyFrame
    \/ Tick /\ UNCHANGED SelFrame

SpecTally == InitTally /\ [][NextTally]_vars

(***************************************************************************)
(* Properties of LRUCache, checked under SpecLRU                           *)
(***************************************************************************)
\* a put is under way or was the latest call: pre and evicted describe it
PutObserved == pre.key # "none"

\* the latest call was a put and it has returned
PutReturned == PutObserved /\ lret.op = "put"

\* the bytes stored when the put was called, less those of the entry it
\* replaces
BytesBeforeEviction ==
    pre.size - (IF pre.key \in DOMAIN pre.data
                THEN pre.data[pre.key].file_size ELSE 0)

\* the bytes of the first n entries the put evicted
EvictedBytes(n) == SumFileSize(pre.data, SeqToSet(SubSeq(evicted, 1, n)))

\* the other keys in the order of their last get-hit or put, oldest first
RecencyAtCall == SeqRemove(pre.mru, pre.key)

\* C1: in every state, between any two steps of any callers (after each put,
\* get, remove and clear and after each single eviction inside a put),
\* current_size_bytes is the sum of file_size over the stored entries.
C1_SizeIsSumOfEntries == current_size_bytes = StoredBytes

\* a put has evicted one entry, is still inside its loop, and entries remain
C1_Witness ==
    \E t \in Threads :
        /\ lpc[t] = "put_evict"
        /\ Len(evicted) = 1
        /\ current_size_bytes > 0
        /\ Cardinality(DOMAIN cache_data) >= 1

\* C2: the entries a put evicts are, in order, the least recently used ones
\* (by last get-hit or put); every eviction was needed, the new entry not
\* fitting before it; a put that fits evicts nothing; and with A, B, C put in
\* that order and A read again, a put of D that evicts once evicts B.
C2_EvictsLeastRecentFirst ==
    PutObserved =>
        /\ Len(evicted) <= Len(RecencyAtCall)
        /\ evicted = SubSeq(RecencyAtCall, 1, Len(evicted))
        /\ evicted # <<>> =>
              BytesBeforeEviction - EvictedBytes(Len(evicted) - 1)
                  + pre.file_size > max_size_bytes
        /\ BytesBeforeEviction + pre.file_size <= max_size_bytes =>
              evicted = <<>>
        /\ (/\ PutReturned
            /\ pre.mru = <<"k2", "k3", "k1">>
            /\ pre.key = "k4"
            /\ Len(evicted) = 1) => evicted = <<"k2">>

\* k1, k2, k3 were put, k1 was read again, and the put of k4 evicted one entry
C2_Witness ==
    /\ PutReturned
    /\ lret.val
    /\ pre.mru = <<"k2", "k3", "k1">>
    /\ pre.data["k1"].access_count = 2
    /\ stats.hits = 1
    /\ pre.key = "k4"
    /\ Len(evicted) = 1

\* C3: current_size_bytes never exceeds max_size_bytes; and when k1 and k2,
\* 400 bytes each and put in that order, are stored and a put of 400 bytes
\* under k3 does not fit, it evicts k1 alone and leaves k2 and k3, 800 bytes.
C3_WithinBudget ==
    /\ current_size_bytes <= max_size_bytes
    /\ (/\ PutReturned
        /\ pre.order = <<"k1", "k2">>
        /\ pre.data["k1"].file_size = 4
        /\ pre.data["k2"].file_size = 4
        /\ pre.key = "k3"
        /\ pre.file_size = 4
        /\ pre.size + pre.file_size > max_size_bytes)
       => /\ evicted = <<"k1">>
          /\ cache_order = <<"k2", "k3">>
          /\ DOMAIN cache_data = {"k2", "k3"}
          /\ current_size_bytes = 8

\* the third put of the scenario has returned
C3_Witness ==
    /\ PutReturned
    /\ lret.val
    /\ pre.order = <<"k1", "k2">>
    /\ pre.size = 8
    /\ pre.key = "k3"
    /\ pre.file_size = 4
    /\ evicted # <<>>

\* C4: a put of an entry larger than max_size_bytes leaves the stored
\* entries, their order, current_size_bytes, the eviction counter and the
\* files on disk as they were when it was called.
C4_RejectLeavesNoTrace ==
    (PutReturned /\ pre.file_size > max_size_bytes) =>
        /\ cache_data = pre.data
        /\ cache_order = pre.order
        /\ current_size_bytes = pre.size
        /\ stats.evictions = pre.evictions
        /\ files = pre.files

\* C5: a put of an entry larger than max_size_bytes returns False and does
\* not store it, and no stored entry is ever larger than max_size_bytes.
C5_OversizedNeverStored ==
    /\ \A k \in DOMAIN cache_data : cache_data[k].file_size <= max_size_bytes
    /\ (PutReturned /\ pre.file_size > max_size_bytes) =>
          /\ ~lret.val
          /\ pre.key \notin DOMAIN cache_data

\* an oversized put has returned
C5_Witness ==
    /\ PutReturned
    /\ lret.size > max_size_bytes
    /\ ~lret.val

(***************************************************************************)
(* Properties of the selection engine, checked under SpecSel               *)
(***************************************************************************)
\* the step in which thread t draws and select_random_album returns
DrawStep(t) == spc[t] = "draw" /\ spc'[t] = "idle"

\* C6: when select_random_album has returned album X and the next call
\* returns less than min_time_between_repeats_hours later, with more than one
\* album in the collection, that call does not return X.
C6_NoImmediateRepeat ==
    [][\A t \in Threads :
          (/\ DrawStep(t)
           /\ sret.kind = "album"
           /\ sret'.kind = "album"
           /\ sret'.at - sret.at < min_time_between_repeats_hours
           /\ Cardinality(DOMAIN albums) > 1)
          => sret'.album_id # sret.album_id]_vars

C8_DrawReadsWholeTable ==
    [][\A t \in Threads :
          DrawStep(t) => AlbumIds(ReadCache(t)) = committed]_vars

\* a refresh has written some of its rows while a select_random_album of
\* another thread waits for cache_lock, the older table not being empty
C8_Witness ==
    \E t, u \in Threads :
        /\ spc[t] = "select_wait"
        /\ spc[u] = "refresh_insert"
        /\ Len(txn.table) >= 1
        /\ Len(txn.table) < Len(sarg[u].entries)
        /\ committed # <<>>

\* C9: every row of the weight table, committed or being written, has
\* final_weight >= 0.01.
C9_WeightFloor ==
    /\ \A i \in 1..Len(intelligent_cache) : intelligent_cache[i].final_weight >= 10
    /\ \A i \in 1..Len(txn.table) : txn.table[i].final_weight >= 10

\* a committed row sits on the floor
C9_Witness ==
    \E i \in 1..Len(intelligent_cache) :
        /\ intelligent_cache[i].final_weight = 10
        /\ intelligent_cache[i].album_id = 2

\* C10: a select_random_album that returns an album, its log insert not
\* failing, appends one SelectionHistory entry and one log record, both for
\* the album drawn, and, the album coming from the weight table, adds 1 to
\* times_served on the row of that album and on no other row.
C10_ServeBookkeeping ==
    [][\A t \in Threads :
          (DrawStep(t) /\ sret'.kind = "album" /\ sret'.logged) =>
            /\ history'.selections # <<>>
            /\ history'.selections[Len(history'.selections)].album_id
                  = sret'.album_id
            /\ Len(selection_history') = Len(selection_history) + 1
            /\ selection_history'[Len(selection_history')].album_id
                  = sret'.album_id
            /\ sret'.from_cache =>
                  /\ Len(intelligent_cache') = Len(intelligent_cache)
                  /\ \A i \in 1..Len(intelligent_cache) :
                        intelligent_cache'[i].times_served =
                            intelligent_cache[i].times_served
                              + (IF intelligent_cache[i].album_id = sret'.album_id
                                 THEN 1 ELSE 0)]_vars

\* the positions of a thread inside _refresh_selection_cache
RefreshPcs == {"refresh", "refresh_delete", "refresh_insert", "refresh_failed"}

\* the step on which the refresh of thread t commits its rows
CommitStep(t) ==
    /\ spc[t] = "refresh_insert"
    /\ spc'[t] \in {"draw", "idle"}

\* C13: no step taken while a refresh is under way changes the committed
\* weight table unless it is the commit of that refresh, so a refresh the
\* store fails (on the read, after the DELETE, on an INSERT, on the commit)
\* ends in its handler with the table as it was and no transaction open;
\* from the handler a select_random_album goes on to its draw, holding the
\* lock, with no result raised, and the draw reads the committed table.
C13_FailedRefreshKeepsCache ==
    [][\A t \in Threads :
          /\ (spc[t] \in RefreshPcs /\ ~CommitStep(t)) =>
                intelligent_cache' = intelligent_cache
          /\ spc'[t] = "refresh_failed" =>
                /\ txn' = NoTxn
                /\ intelligent_cache' = intelligent_cache
          /\ spc[t] = "refresh_failed" =>
                /\ sret' = sret
                /\ sarg[t].op = "select" =>
                      /\ spc'[t] \in {"refresh_failed", "draw"}
                      /\ cache_lock' = t
          /\ spc'[t] = "draw" => ReadCache(t)' = intelligent_cache']_vars

\* a select_random_album whose refresh the store failed is in the handler,
\* the two rows of the last good refresh in the table
C13_Witness ==
    \E t \in Threads :
        /\ spc[t] = "refresh_failed"
        /\ sarg[t].op = "select"
        /\ Len(intelligent_cache) = 2
        /\ committed = <<1, 2>>
        /\ txn = NoTxn

(***************************************************************************)
(* Properties of the engine with its callers, checked under SpecApp        *)
(***************************************************************************)
\* the step of a record_user_feedback call
FeedbackStep == fret'.n = fret.n + 1

\* the log records of selections of the album in the session, feedback unset
UnfedSelections(album_id, session_id) ==
    {i \in 1..Len(selection_history) :
        /\ selection_history[i].drawn = album_id
        /\ selection_history[i].session_id = session_id
        /\ selection_history[i].user_feedback = NoFeedback}

\* no two log records carry the same selected_at
DistinctTimestamps ==
    \A i, j \in 1..Len(selection_history) :
        i # j => selection_history[i].selected_at # selection_history[j].selected_at

\* C11: a record_user_feedback call the store does not fail, the log records
\* differing in selected_at, sets the feedback on the latest record of a
\* selection of that album in that session whose feedback is unset, and
\* changes nothing else in the log; with no such record the log is unchanged.
C11_FeedbackOnLatestUnfed ==
    [][(FeedbackStep /\ ~fret'.error /\ DistinctTimestamps) =>
          LET unfed == UnfedSelections(fret'.album_id, fret'.session_id)
          IN IF unfed = {}
             THEN selection_history' = selection_history
             ELSE LET latest == CHOOSE i \in unfed : \A j \in unfed : j <= i
                  IN selection_history' =
                        [selection_history EXCEPT
                            ![latest].user_feedback = fret'.feedback]]_vars

(***************************************************************************)
(* Properties of the construction, checked under SpecCfg                   *)
(***************************************************************************)
\* the weights are not negative and sum to at most 1
ValidWeights(c) ==
    /\ c.rating_weight >= 0
    /\ c.play_count_weight >= 0
    /\ c.recency_weight >= 0
    /\ c.genre_diversity_weight >= 0
    /\ c.rating_weight + c.play_count_weight + c.recency_weight
          + c.genre_diversity_weight <= 1000

\* C12: every AlgorithmConfig that was constructed has weights that are not
\* negative and sum to at most 1, and so has the configuration of every
\* engine that was built.
C12_NoInvalidConfig ==
    /\ config.built => ValidWeights(config)
    /\ engine_config.built => ValidWeights(engine_config)

(***************************************************************************)
(* Properties of ImageCache, checked under SpecImg                         *)
(***************************************************************************)
\* no get_image call is under way
Quiescent == \A t \in Threads : ipc[t] = "idle"

\* C14: whenever every get_image call has returned, the keys of the LRU
\* cache are the keys whose file is on disk: each entry has its backing file
\* and each file has its entry.
C14_EntriesAndFilesAgree == Quiescent => DOMAIN cache_data = files

\* the put of thread t
PutStep(t) == ipc[t] = "put" /\ ipc'[t] = "after_put"

\* C15: the entries the put of a get_image call evicts lose their file and
\* their row of the metadata table on that step, which keeps the keys of the
\* metadata table equal to the keys of the LRU cache.
C15_EvictionRemovesRow ==
    [][\A t \in Threads :
          PutStep(t) =>
             \A k \in (DOMAIN cache_data \ DOMAIN cache_data') \ {iarg[t].key} :
                /\ k \notin files'
                /\ k \notin DOMAIN image_cache']_vars

\* the step on which the fetch of thread t fails and get_image returns
FetchFailStep(t) == ipc[t] = "fetch" /\ ipc'[t] = "idle"

\* C16: a get_image whose fetch fails, whatever the kind of failure, returns
\* no path and raises nothing; the step stores no entry, writes no metadata
\* row and creates no file, and the file of the key is not on disk after it.
C16_FetchFailureLeavesNothing ==
    [][\A t \in Threads :
          FetchFailStep(t) =>
             /\ iret'.key = iarg[t].key
             /\ iret'.why \in FetchFailures
             /\ ~iret'.path
             /\ ~iret'.raised
             /\ cache_data' = cache_data
             /\ image_cache' = image_cache
             /\ files' \subseteq files
             /\ iarg[t].key \notin files']_vars

\* a fetch that got a response that is no image has returned, another image
\* in the cache
C16_Witness ==
    /\ iret.why = "not_image"
    /\ ~iret.path
    /\ iret.key = "k2"
    /\ DOMAIN cache_data = {"k1"}
    /\ Quiescent

\* the step on which get_image returns after the LRU cache rejected the put
RejectStep(t) == ipc[t] = "after_put" /\ ~iarg[t].put_ok /\ ipc'[t] = "idle"

CleanupStep == cret'.n = cret.n + 1

\* key k is in the LRU cache, in the metadata table and on disk as before
Untouched(k) ==
    /\ (k \in DOMAIN cache_data') = (k \in DOMAIN cache_data)
    /\ (k \in DOMAIN image_cache') = (k \in DOMAIN image_cache)
    /\ (k \in files') = (k \in files)
    /\ k \in DOMAIN cache_data => cache_data'[k] = cache_data[k]
    /\ k \in DOMAIN image_cache => image_cache'[k] = image_cache[k]

\* C18: a cleanup_cache call the store serves leaves no key whose row has a
\* last access before the cutoff in the LRU cache, in the metadata table or
\* on disk, leaves every other key as it was, and returns the number of keys
\* whose row was before the cutoff.
C18_CleanupRemovesOldEntries ==
    [][(CleanupStep /\ ~cret'.error) =>
          LET old == OldRows(cret'.max_age_days)
          IN /\ \A k \in old :
                   /\ k \notin DOMAIN cache_data'
                   /\ k \notin DOMAIN image_cache'
                   /\ k \notin files'
             /\ \A k \in Keys \ old : Untouched(k)
             /\ cret'.val = Cardinality(old)]_vars

(***************************************************************************)
(* Properties of preload_images, checked under SpecPre                     *)
(***************************************************************************)
\* the futures submitted for url
FuturesOf(url) == {f \in 1..Len(futures) : futures[f].url = url}

\* the URLs of the call that are not empty, one for each place in the list
Places == {i \in 1..Len(preload.urls) : preload.urls[i] # ""}

SelectStep(t) ==
    /\ spc'[t] # spc[t]
    /\ sarg[t].op = "select" \/ sarg'[t].op = "select"

\* C20: no step of a select_random_album call, its refresh included, changes
\* the play_count or the last_played of an album; they change on the steps
\* of album_detail alone.
C20_SelectionCountsNoPlay ==
    [][/\ (\E t \in Threads : SelectStep(t)) =>
             /\ DOMAIN albums' = DOMAIN albums
             /\ \A a \in DOMAIN albums :
                   /\ albums'[a].play_count = albums[a].play_count
                   /\ albums'[a].days_played = albums[a].days_played
       /\ Plays' # Plays => (spc' = spc /\ sret' = sret /\ Plays' = Plays + 1)]_vars

\* album 1 was returned by two selections and has the play count of the
\* sync; the page of album 2 was opened once
C20_Witness ==
    /\ DOMAIN albums = {1, 2}
    /\ sret.kind = "album"
    /\ sret.album_id = 1
    /\ metrics.total_selections = 2
    /\ Len(selection_history) = 2
    /\ albums[1].play_count = AlbumRow(1).play_count
    /\ albums[2].play_count = AlbumRow(2).play_count + 1

(***************************************************************************)
(* Properties of the weighted query, checked under SpecDraw                *)
(***************************************************************************)
RECURSIVE SumFinalWeight(_, _)
SumFinalWeight(table, rows) ==
    IF rows = {} THEN 0
    ELSE LET i == CHOOSE x \in rows : TRUE
         IN table[i].final_weight + SumFinalWeight(table, rows \ {i})

\* of all values of RANDOM(), those for which the query returns row i
\* whatever the sort does with ties, and those for which it may return it
Wins(t, i) == Cardinality({r \in RandomValues(t) : TopRows(t, r) = {i}})

MayWin(t, i) == Cardinality({r \in RandomValues(t) : i \in TopRows(t, r)})

\* C21: at the draw of a select_random_album, every row of the weight cache
\* is returned with probability final_weight / sum of the final_weight of
\* all rows: the share of the values of RANDOM() that return the row is that
\* fraction, the values that tie counted for or against the row.
C21_DrawProportionalToWeight ==
    \A t \in Threads :
        (spc[t] = "draw" /\ Candidates(t) # {}) =>
            \A i \in Candidates(t) :
                LET w == ReadCache(t)[i].final_weight
                    total == SumFinalWeight(ReadCache(t), Candidates(t))
                    n == Cardinality(RandomValues(t))
                IN /\ Wins(t, i) * total <= w * n
                   /\ w * n <= MayWin(t, i) * total

(***************************************************************************)
(* Properties of the placeholders, checked under SpecPlaceholder           *)
(***************************************************************************)
\* the step on which thread t calls get_placeholder_path
PlaceholderCallStep(t) ==
    /\ placeholder.pc[t] = "idle"
    /\ placeholder'.calls = placeholder.calls + 1

\* C22: a get_placeholder_path call returns the path every earlier call for
\* the same size class returned, and a call made when the file of its size
\* class exists returns without writing it: the files and the number of
\* writes of every placeholder are as before the call.
C22_PlaceholderIdempotent ==
    [][/\ Len(placeholder'.rets) > Len(placeholder.rets) =>
             \A i \in 1..Len(placeholder.rets) :
                placeholder.rets[i].size_type
                      = placeholder'.rets[Len(placeholder'.rets)].size_type
                   => placeholder.rets[i].path
                         = placeholder'.rets[Len(placeholder'.rets)].path
       /\ \A t \in Threads, size_type \in SizeTypes :
             (/\ PlaceholderCallStep(t)
              /\ PlaceholderPath(size_type) \in placeholder.files
              /\ placeholder'.size_type[t] = size_type
                    \/ (/\ Len(placeholder'.rets) > Len(placeholder.rets)
                        /\ placeholder'.rets[Len(placeholder'.rets)].size_type
                              = size_type))
             => /\ placeholder'.pc[t] = "idle"
                /\ placeholder'.files = placeholder.files
                /\ placeholder'.writes = placeholder.writes
                /\ Len(placeholder'.rets) = Len(placeholder.rets) + 1
                /\ placeholder'.rets[Len(placeholder'.rets)].path
                      = PlaceholderPath(size_type)]_vars

\* two calls for the detail placeholder have returned the same path, the
\* file written once
C22_Witness ==
    /\ Len(placeholder.rets) = 2
    /\ placeholder.rets[1].size_type = "detail"
    /\ placeholder.rets[2].size_type = "detail"
    /\ placeholder.rets[1].path = placeholder.rets[2].path
    /\ placeholder.writes["detail"] = 1
    /\ PlaceholderPath("detail") \in placeholder.files
    /\ \A t \in Threads : placeholder.pc[t] = "idle"

(***************************************************************************)
(* Properties of the selection engine, checked under SpecSel (continued)   *)
(***************************************************************************)
\* C23: the id of an album returned from a weighted draw is the id of an
\* album of the collection and the album_id of the row drawn, and it is the
\* id written to the selection log, appended to SelectionHistory and the
\* album_id of the rows whose times_served is raised.
C23_ReturnedIdIsDrawnAlbum ==
    [][\A t \in Threads :
          (DrawStep(t) /\ sret'.kind = "album" /\ sret'.from_cache) =>
             /\ sret'.id \in DOMAIN albums
             /\ sret'.id = sret'.album_id
             /\ sret'.logged =>
                   selection_history'[Len(selection_history')].album_id
                      = sret'.album_id
             /\ history'.selections[Len(history'.selections)].album_id
                   = sret'.album_id
             /\ \A i \in 1..Len(intelligent_cache) :
                   intelligent_cache'[i].times_served =
                      intelligent_cache[i].times_served
                        + (IF intelligent_cache[i].album_id = sret'.album_id
                           THEN 1 ELSE 0)]_vars

\* the albums the durable log shows as selected within the last hours
LoggedWithin(hours) ==
    {selection_history[i].drawn :
        i \in {j \in 1..Len(selection_history) :
                  selection_history[j].selected_at > now - hours}}

\* the step on which the refresh of thread t reads the collection and
\* computes its rows
ReadStep(t) == spc[t] = "refresh" /\ spc'[t] = "refresh_delete"

\* C24: the rows a refresh computes, which are the rows in the table after
\* its commit, are one row for each album of the collection that was not
\* selected within the last min_time_between_repeats_hours and none for any
\* other album; the selections are those of the durable log, which holds
\* every selection when none of its writes failed.
C24_RefreshRowsAreTheEligibleAlbums ==
    [][\A t \in Threads :
          /\ ReadStep(t) =>
                LET entries == sarg'[t].entries
                    ids == {entries[i].album_id : i \in 1..Len(entries)}
                    recent == LoggedWithin(min_time_between_repeats_hours)
                IN /\ \A i \in 1..Len(entries), j \in 1..Len(entries) :
                         entries[i].album_id = entries[j].album_id => i = j
                   /\ ids \subseteq DOMAIN albums
                   /\ ids \cap recent = {}
                   /\ Len(selection_history) = Len(history.selections) =>
                         ids = DOMAIN albums \ recent
          /\ CommitStep(t) =>
                AlbumIds(intelligent_cache') = AlbumIds(sarg[t].entries)]_vars

(***************************************************************************)
(* Properties of the construction of the engine, checked under SpecStart   *)
(***************************************************************************)
\* the step on which a new engine loads its history
StartStep == started'.n = started.n + 1

\* the records of the durable log of the last seven days
LogOfLastWeek ==
    {i \in 1..Len(selection_history) :
        selection_history[i].selected_at > now - history_days * HoursPerDay}

\* sets of n records of the last seven days that no record left out is newer
\* than
MostRecent(n) ==
    {S \in SUBSET LogOfLastWeek :
        /\ Cardinality(S) = n
        /\ \A i \in S, j \in LogOfLastWeek \ S :
              selection_history[j].selected_at <= selection_history[i].selected_at}

\* the history h holds the album ids of the records S, each as often as S
SeededFrom(h, S) ==
    /\ Len(h.selections) = Cardinality(S)
    /\ \A a \in DOMAIN albums :
          Cardinality({k \in 1..Len(h.selections) : h.selections[k].album_id = a})
             = Cardinality({i \in S : selection_history[i].album_id = a})

\* the history a construction leaves, from the records of the last week
SeededFromLog ==
    LET n == Min(max_history_size, Cardinality(LogOfLastWeek))
    IN /\ \E S \in MostRecent(n) : SeededFrom(history', S)
       /\ n > 0 =>
             /\ get_recent_artists(history', max_same_artist_streak) # <<>>
             /\ get_recent_albums(history', min_time_between_repeats_hours) # {}
             /\ (\E k \in 1..Len(history'.selections) :
                    history'.selections[k].genres # <<>>)
                   => get_recent_genres(history', genre_cooldown_selections) # <<>>

ArtistsOf(S) == {albums[selection_history[i].album_id].artist : i \in S}

GenresOf(S) ==
    {albums[selection_history[i].album_id].genres[1] :
        i \in {j \in S : albums[selection_history[j].album_id].genres # <<>>}}

\* C26: after a construction has read the log, every seeded entry carries
\* the time of a log record of its album, the entries are in chronological
\* order, get_recent_albums(H) returns only albums with a log record of the
\* last H hours, and get_recent_genres(K) / get_recent_artists(M) return the
\* genres / artists of the K / M most recent log records.
C26_SeededEntriesKeepTheirTimes ==
    [][(StartStep /\ ~started'.error) =>
          LET sel == history'.selections
              H == min_time_between_repeats_hours
              K == Min(genre_cooldown_selections, Cardinality(LogOfLastWeek))
              M == Min(max_same_artist_streak, Cardinality(LogOfLastWeek))
          IN /\ \A k \in 1..Len(sel) :
                   \E i \in LogOfLastWeek :
                      /\ selection_history[i].album_id = sel[k].album_id
                      /\ selection_history[i].selected_at = sel[k].timestamp
             /\ \A k \in 1..Len(sel), l \in 1..Len(sel) :
                   k < l => sel[k].timestamp <= sel[l].timestamp
             /\ get_recent_albums(history', H) \subseteq
                   {selection_history[i].album_id :
                       i \in {j \in 1..Len(selection_history) :
                                 selection_history[j].selected_at > now - H}}
             /\ \E S \in MostRecent(K) :
                   SeqToSet(get_recent_genres(history', genre_cooldown_selections))
                      = GenresOf(S)
             /\ \E S \in MostRecent(M) :
                   SeqToSet(get_recent_artists(history', max_same_artist_streak))
                      = ArtistsOf(S)]_vars

(***************************************************************************)
(* Properties of the start of the image cache, checked under SpecLoad      *)
(***************************************************************************)
\* the step on which a new ImageCache loads the metadata table
LoadStep == started'.loads = started.loads + 1

\* C27: after the load the eviction order of the LRU cache, which evicts the
\* head of cache_order, agrees with the persisted last_accessed times: no
\* entry stands before one that was accessed earlier, so the first entry a
\* later put evicts is the loaded entry with the oldest last_accessed.
C27_LoadedOrderFollowsLastAccessed ==
    [][LoadStep =>
          \A i \in 1..Len(cache_order'), j \in 1..Len(cache_order') :
             i < j => image_cache'[cache_order'[i]].last_accessed
                         <= image_cache'[cache_order'[j]].last_accessed]_vars

(***************************************************************************)
(* Properties of SelectionHistory, checked under SpecHistory               *)
(***************************************************************************)
\* window w2 is window w with x appended and, past cap entries, the oldest
\* dropped
Shifted(w, w2, x, cap) ==
    /\ Len(w2) = Min(Len(w) + 1, cap)
    /\ w2[Len(w2)] = x
    /\ \A k \in 1..(Len(w2) - 1) : w2[k] = w[Len(w) - (Len(w2) - 1) + k]

\* C28: every add_selection leaves at most max_size entries, the new one
\* last and before it the most recent earlier ones in their order, the
\* oldest dropped first; the genre window holds at most the last 10 primary
\* genres (an album without genre adds none) and the artist window at most
\* the last 5 artists.
C28_HistoryIsBoundedFifo ==
    [][history' # history =>
          LET new == history'.selections[Len(history'.selections)]
          IN /\ Len(history'.selections) <= max_history_size
             /\ Shifted(history.selections, history'.selections, new,
                        max_history_size)
             /\ Len(history'.genre_history) <= 10
             /\ IF new.genres # <<>>
                THEN Shifted(history.genre_history, history'.genre_history,
                             new.genres[1], 10)
                ELSE history'.genre_history = history.genre_history
             /\ Len(history'.artist_history) <= 5
             /\ Shifted(history.artist_history, history'.artist_history,
                        new.artist, 5)]_vars

\* the three windows are full and have dropped entries, and the last album
\* added had no genre
C28_Witness ==
    /\ Len(history.selections) = max_history_size
    /\ Len(history.genre_history) = 10
    /\ Len(history.artist_history) = 5
    /\ history.genre_history[1] = "Jazz"
    /\ history.genre_history[10] = "Rock"
    /\ history.selections[max_history_size].genres = <<>>
    /\ history.artist_history = <<"X", "Y", "Y", "X", "">>

(***************************************************************************)
(* Properties of the draw on a synchronised collection, checked under      *)
(* SpecServe                                                               *)
(***************************************************************************)
\* row with times_served and last_served blanked
WeightsOf(row) == [row EXCEPT !.times_served = 0, !.last_served = NoValue]

\* C29: a select_random_album call that does not refresh (every call of
\* SpecServe) leaves the rows of the weight table as they are but for
\* times_served and last_served of the row it drew.
C29_DrawChangesOnlyServedOfDrawnRow ==
    [][\A t \in Threads : DrawStep(t) =>
          /\ Len(intelligent_cache') = Len(intelligent_cache)
          /\ \A i \in 1..Len(intelligent_cache) :
                /\ WeightsOf(intelligent_cache'[i])
                      = WeightsOf(intelligent_cache[i])
                /\ intelligent_cache'[i] # intelligent_cache[i] =>
                      /\ sret'.kind = "album"
                      /\ sret'.from_cache
                      /\ intelligent_cache[i].album_id = sret'.album_id]_vars

(***************************************************************************)
(* Properties of the hourly refresh, checked under SpecHourly              *)
(***************************************************************************)
\* select_random_album of thread t takes cache_lock and decides on a refresh
AcquireStep(t) == spc[t] = "select_wait" /\ spc'[t] # "select_wait"

\* C30: a select_random_album call that takes the lock two or more whole
\* hours after the latest refresh committed goes through a refresh (its rows
\* computed from the SelectionHistory of that moment) and then draws; a call
\* in the hour of that commit draws at once; and a refresh that commits
\* nothing (it failed, or found no albums) leaves last_cache_refresh alone.
C30_HourlyRefresh ==
    [][\A t \in Threads :
          /\ AcquireStep(t) =>
                /\ (refreshed_at # NoValue /\ now - refreshed_at > 1) =>
                      spc'[t] = "refresh"
                /\ refreshed_at = now => spc'[t] = "draw"
          /\ (ReadStep(t) /\ sarg[t].op = "select") =>
                sarg'[t].entries = CacheEntries
          /\ (CommitStep(t) /\ sarg[t].op = "select") =>
                /\ AlbumIds(intelligent_cache') = AlbumIds(sarg[t].entries)
                /\ spc'[t] = "draw"
          /\ (spc[t] \in RefreshPcs /\ ~CommitStep(t)) =>
                last_cache_refresh' = last_cache_refresh]_vars

(***************************************************************************)
(* Properties of LRUCache, checked under SpecLRU (continued)               *)
(***************************************************************************)
\* the step of a get: no other call leaves a get as the latest result
GetStep == lret'.op = "get"

\* C31: hits + misses = total_requests in every state; every get adds one to
\* total_requests and to exactly one of hits and misses; a hit adds one to
\* the entry's access_count and puts the key last in cache_order, the other
\* keys keeping their order; a miss returns nothing and leaves the entries
\* and their order as they were; neither changes current_size_bytes.
C31_GetCountsAndMoves ==
    /\ [](stats.hits + stats.misses = stats.total_requests)
    /\ [][GetStep =>
            LET key == lret'.key
            IN /\ stats'.total_requests = stats.total_requests + 1
               /\ stats'.evictions = stats.evictions
               /\ current_size_bytes' = current_size_bytes
               /\ IF key \in DOMAIN cache_data
                  THEN /\ lret'.val
                       /\ stats'.hits = stats.hits + 1
                       /\ stats'.misses = stats.misses
                       /\ DOMAIN cache_data' = DOMAIN cache_data
                       /\ cache_data'[key].access_count
                             = cache_data[key].access_count + 1
                       /\ cache_data'[key].file_size = cache_data[key].file_size
                       /\ \A k \in DOMAIN cache_data \ {key} :
                             cache_data'[k] = cache_data[k]
                       /\ cache_order'[Len(cache_order')] = key
                       /\ SeqRemove(cache_order', key)
                             = SeqRemove(cache_order, key)
                  ELSE /\ ~lret'.val
                       /\ stats'.misses = stats.misses + 1
                       /\ stats'.hits = stats.hits
                       /\ cache_data' = cache_data
                       /\ cache_order' = cache_order]_vars

\* a get has hit k1, the older of two stored entries, which now stands last
C31_Witness ==
    /\ lret = [op |-> "get", key |-> "k1", size |-> 0, val |-> TRUE]
    /\ stats.hits = 1
    /\ stats.total_requests = 1
    /\ cache_order = <<"k2", "k1">>
    /\ mru = <<"k2", "k1">>
    /\ cache_data["k1"].access_count = 2
    /\ cache_data["k2"].access_count = 1

\* the step of a clear
ClearStep == lret'.op = "clear"

Returned == {i \in DOMAIN singleton.rets : singleton.rets[i].serial # 0}

\* C33: whatever the interleaving of the calls, at most one RandomAlgorithm
\* is constructed and every call that returns returns that object; once the
\* object exists, no call replaces it or changes its db_path or its
\* configuration, whatever db_path and config it is given.
C33_SingleInstance ==
    /\ [](/\ singleton.constructed <= 1
          /\ \A i \in Returned : singleton.rets[i].serial = 1
          /\ Returned # {} => singleton.instance.serial = 1)
    /\ [][singleton.instance # NoInstance =>
             /\ singleton'.instance = singleton.instance
             /\ engine_config' = engine_config]_vars

\* after a call whose constructor raised, two threads have been returned the
\* object that the call with db1 and no config constructed; the later call
\* passed db2 and a config of its own
C33_Witness ==
    /\ Len(singleton.rets) = 3
    /\ singleton.rets[1].serial = 0
    /\ singleton.rets[2] = [thread |-> "t1", serial |-> 1, db_path |-> "db1",
                            given |-> FALSE]
    /\ singleton.rets[3] = [thread |-> "t2", serial |-> 1, db_path |-> "db2",
                            given |-> TRUE]
    /\ singleton.instance = [serial |-> 1, db_path |-> "db1"]
    /\ engine_config = DefaultConfig
    /\ config.built
    /\ config # DefaultConfig
    /\ intelligent_cache # <<>>

(***************************************************************************)
(* Properties of the locks of the engine, checked under SpecLive           *)
(***************************************************************************)
\* thread t waits for cache_lock or for _algorithm_lock
WaitsForLock(t) ==
    \/ spc[t] \in {"select_wait", "trigger_wait"}
    \/ singleton.pc[t] = "wait"

C35_TotalCountsCompletedCalls ==
    metrics.total_selections = tally.done

\* ---- Properties of get_image, checked under SpecShare

\* C36: a thread that is downloading or transcoding an image in get_image
\* does not hold the lock of the LRU cache, so the LRUCache.get of another
\* thread is not kept waiting by the download
C36_LockFreeDuringDownload ==
    \A t \in Threads : ipc[t] = "fetch" => lock # t

\* t1 is in its download while t2, whose get_image began later and missed on
\* another key, has completed its LRUCache.get
C36_Witness ==
    /\ ipc["t1"] = "fetch"
    /\ ipc["t2"] = "fetch"
    /\ iarg["t1"].key # iarg["t2"].key
    /\ stats.misses = 2
    /\ lock = NoThread

\* ---- Properties of record_user_feedback, checked under SpecApp (continued)

\* C37: record_user_feedback leaves every weight row, committed or being
\* written, and the configuration as they are; it changes nothing but the
\* feedback field of at most one record of the selection log and the
\* user_satisfaction_score, and a feedback of 0 leaves the score as it is
C37_FeedbackTouchesLogAndScoreOnly ==
    [][FeedbackStep =>
          /\ intelligent_cache' = intelligent_cache
          /\ txn' = txn
          /\ <<config, engine_config>>' = <<config, engine_config>>
          /\ <<albums, history, last_cache_refresh>>' =
                <<albums, history, last_cache_refresh>>
          /\ metrics' = [metrics EXCEPT !.user_satisfaction_score =
                                           metrics'.user_satisfaction_score]
          /\ fret'.feedback = 0 => metrics' = metrics
          /\ Len(selection_history') = Len(selection_history)
          /\ Cardinality({i \in 1..Len(selection_history) :
                            selection_history'[i] # selection_history[i]}) <= 1
          /\ \A i \in 1..Len(selection_history) :
                selection_history'[i] =
                   [selection_history[i] EXCEPT
                       !.user_feedback = selection_history'[i].user_feedback]
    ]_vars

\* a like has been recorded on the one record of the log while the weight
\* table holds a row: the score has moved from 0 to 0.1
C37_Witness ==
    /\ fret.n = 1
    /\ fret.feedback = 1
    /\ ~fret.error
    /\ Len(selection_history) = 1
    /\ selection_history[1].user_feedback = 1
    /\ metrics.user_satisfaction_score = 100
    /\ Len(intelligent_cache) >= 1

\* ---- Properties of the diversity factors, checked under SpecHistory

\* C38: whenever the artist of an album and its primary genre both occur n
\* times, n >= 1, in the windows of recent artists and of recent genres, the
\* artist diversity factor is strictly lower than the genre diversity factor
C38_ArtistPenalizedHarder ==
    \A album \in HistoryAlbums :
       \A ka \in 1..5, kg \in 1..10 :
          LET recent_artists == get_recent_artists(history, ka)
              recent_genres == get_recent_genres(history, kg)
          IN (/\ album.artist # ""
              /\ album.genres # <<>>
              /\ Count(recent_artists, album.artist) >= 1
              /\ Count(recent_genres, album.genres[1])
                    = Count(recent_artists, album.artist))
             => calculate_artist_diversity_weight(album.artist, recent_artists)
                   < calculate_genre_diversity_weight(album.genres, recent_genres)

\* ---- Properties of the weights of a refresh, checked under SpecScenario

\* final_weight of the committed row of an album
WeightOf(album_id) ==
    LET i == CHOOSE i \in 1..Len(intelligent_cache) :
                intelligent_cache[i].album_id = album_id
    IN intelligent_cache[i].final_weight

Refreshed == refreshed_at # NoValue /\ Len(intelligent_cache) = 3

\* C39: for albums A (rating 5, Rock), B (rating 1, Jazz) and C (rating 3,
\* Rock) that are otherwise alike, with empty history and the default
\* configuration, a refresh at any month and hour gives
\* weight(A) > weight(C) > weight(B)
C39_WeightsFollowRating ==
    Refreshed => WeightOf(1) > WeightOf(3) /\ WeightOf(3) > WeightOf(2)

\* C39 as the code has it: the weights follow the ratings except where the
\* minimum weight of 0.01 makes them equal
C39_WeightsFollowRatingAboveFloor ==
    Refreshed =>
       /\ WeightOf(1) > WeightOf(3) \/ (WeightOf(1) = 10 /\ WeightOf(3) = 10)
       /\ WeightOf(3) > WeightOf(2) \/ (WeightOf(3) = 10 /\ WeightOf(2) = 10)

\* a refresh in a December night, when Jazz has both of its boosts, of albums
\* never played: the three weights are in the order of the ratings
C39_Witness ==
    /\ Refreshed
    /\ month = 12
    /\ current_hour = 23
    /\ albums[1].days_played = NoValue
    /\ WeightOf(1) > WeightOf(3)
    /\ WeightOf(3) > WeightOf(2)
    /\ WeightOf(2) > 10

\* ---- Properties of calculate_rating_weight, checked under SpecRating

Below(a, b) == a[1] < b[1] \/ (a[1] = b[1] /\ a[2] < b[2])

\* every rating from r to r + 1 that has been computed raises the factor
Increasing ==
    \A r \in 1..4 :
       (rated.factor[r] # NoFactor /\ rated.factor[r + 1] # NoFactor)
          => Below(rated.factor[r], rated.factor[r + 1])

\* rating_weight > 0
Positive(weight) == weight.n > 0

\* rating_weight >= 1e-16
AtLeastTinyStep(weight) ==
    Positive(weight) /\ (weight.scale = "tiny" => weight.n >= 116)

\* C40: whenever rating_weight > 0, the rating factor of rating 5 strictly
\* exceeds that of rating 1 and calculate_rating_weight is strictly increasing
\* over the ratings 1..5
C40_RatingFactorIncreasing ==
    Positive(rated.weight) =>
       /\ Increasing
       /\ (rated.factor[1] # NoFactor /\ rated.factor[5] # NoFactor)
             => Below(rated.factor[1], rated.factor[5])

\* C40 as the code has it: the same for a rating_weight of at least 1e-16
C40_RatingFactorIncreasingFromTinyStep ==
    AtLeastTinyStep(rated.weight) =>
       /\ Increasing
       /\ (rated.factor[1] # NoFactor /\ rated.factor[5] # NoFactor)
             => Below(rated.factor[1], rated.factor[5])

\* the five factors of a rating_weight of 116 * 2^-60: 0, 1, 3, 5 and 7 floats
\* above 0.1
C40_Witness ==
    /\ rated.weight = [scale |-> "tiny", n |-> 116]
    /\ rated.factor = [r \in Ratings |->
                          <<100, CASE r = 1 -> 0 [] r = 2 -> 1 [] r = 3 -> 3
                                   [] r = 4 -> 5 [] OTHER -> 7>>]

====
